---- MODULE Spec2Model ----
(***************************************************************************)
(* Model of the TV show renamer: the batch rename engine of                *)
(* src/src/gui/main_window.py (working set, undo stack, undo history), the *)
(* episode resolver of src/src/core/renamer.py that the preview calls, and *)
(* the filesystem the renames act on.                                      *)
(*                                                                         *)
(* Python values: a string that the program takes apart or puts together   *)
(* (a file name, a path, a cache key) is the sequence of its characters, a *)
(* string it only compares or displays (a status, a method name) is a      *)
(* TLA+ string; None is the integer -1, a dict is a function, a list is a  *)
(* sequence.  Every GUI handler runs to completion on the Tk main loop, so *)
(* each handler is one action.                                             *)
(***************************************************************************)
EXTENDS Integers, Sequences, FiniteSets, TLC

VARIABLES
    platform,        \* os.name of the build: "posix" or "nt"
    fs,              \* the directory: path |-> file identity
    rows,            \* file_list tree: (original_name, new_name, path, status)
    files,           \* self.files: the FileEntry objects (used by main.py only)
    undo_stack,      \* AdvancedRenamer.undo_stack: list of batches
    history_list,    \* the "Undo History" treeview, newest first
    current_method,  \* name of the selected renaming method, or NoMethod
    current_show,    \* id of the selected show, or None
    current_season,  \* selected season number, or None
    episode_cache,   \* TVShowRenamer.episode_cache
    api_call_count,  \* TVShowRenamer.api_call_count
    cache_hits,      \* TVShowRenamer.cache_hits
    show_cache,      \* TVShowRenamer.show_cache
    season_cache,    \* TVShowRenamer.season_cache
    show_names,      \* the case-folded names get_show_info was called with
    performance_stats, \* TVShowRenamer.performance_stats: lengths of the two lists
    sort_state,      \* FileListManager.sort_state: column |-> reverse next time
    task_queue,      \* AdvancedRenamer.task_queue
    result_queue,    \* AdvancedRenamer.result_queue
    worker,          \* the worker thread: where it is and the task it holds
    submitted,       \* the tasks queued so far, in the order they were queued
    drained,         \* the results check_results has taken, in order
    last             \* what the last handler did: op, per-entry log, report

vars == <<platform, fs, rows, files, undo_stack, history_list, current_method,
          current_show, current_season, episode_cache, api_call_count,
          cache_hits, show_cache, season_cache, show_names,
          performance_stats, sort_state, task_queue, result_queue, worker,
          submitted, drained, last>>

(***************************************************************************)
(* Bounds of the exploration: the rows of the tree, the records kept for   *)
(* undo (batches on the undo stack plus entries of the undo history), and  *)
(* the lookups the resolver has served.                                    *)
(***************************************************************************)
MaxRows == 2
MaxRecords == 2
MaxLookups == 2

\* the calls made on a resolver used on its own
MaxCalls == 3

Records == Len(undo_stack) + Len(history_list)

None == -1
NoMethod == ""

(***************************************************************************)
(* Strings.                                                                *)
(***************************************************************************)
\* the characters of a string literal
RECURSIVE Chars(_)
Chars(s) == IF s = "" THEN <<>> ELSE <<SubSeq(s, 1, 1)>> \o Chars(SubSeq(s, 2, Len(s)))

Digits == {"0", "1", "2", "3", "4", "5", "6", "7", "8", "9"}

DigitVal(c) ==
    CASE c = "0" -> 0 [] c = "1" -> 1 [] c = "2" -> 2 [] c = "3" -> 3
      [] c = "4" -> 4 [] c = "5" -> 5 [] c = "6" -> 6 [] c = "7" -> 7
      [] c = "8" -> 8 [] c = "9" -> 9

DigitChar(d) == <<"0", "1", "2", "3", "4", "5", "6", "7", "8", "9">>[d + 1]

\* int(s) for a string of one or two decimal digits
ToInt(s) ==
    IF Len(s) = 1 THEN DigitVal(s[1])
    ELSE 10 * DigitVal(s[1]) + DigitVal(s[2])

\* str(n) for n >= 0
RECURSIVE Decimal(_)
Decimal(n) ==
    IF n < 10 THEN <<DigitChar(n)>> ELSE Decimal(n \div 10) \o <<DigitChar(n % 10)>>

\* f"{n:02d}" for n >= 0
Pad2(n) == IF n < 10 THEN <<"0">> \o Decimal(n) ELSE Decimal(n)

\* truthiness of an Optional[int]: None and 0 are both falsy
Falsy(n) == n = None \/ n = 0

\* the largest index of character c in s, 0 when absent
LastIndexOf(s, c) ==
    LET hits == {i \in 1..Len(s) : s[i] = c}
    IN  IF hits = {} THEN 0 ELSE CHOOSE i \in hits : \A j \in hits : j <= i

\* os.path.dirname / os.path.basename / os.path.join.  Paths are written
\* with "/"; on Windows join writes "\" and both separate, so the model
\* writes "/" for either.
Dirname(path) ==
    LET k == LastIndexOf(path, "/")
    IN  IF k = 0 THEN <<>> ELSE IF k = 1 THEN <<"/">> ELSE SubSeq(path, 1, k - 1)

Basename(path) == SubSeq(path, LastIndexOf(path, "/") + 1, Len(path))

Join(dir, name) ==
    IF name # <<>> /\ name[1] = "/" THEN name
    ELSE IF dir = <<>> \/ dir[Len(dir)] = "/" THEN dir \o name
    ELSE dir \o <<"/">> \o name

\* os.path.splitext(name)[1]: from the last dot, unless only dots precede it
SplitExt(name) ==
    LET k == LastIndexOf(name, ".")
    IN  IF k = 0 \/ (\A i \in 1..k : name[i] = ".") THEN <<>>
        ELSE SubSeq(name, k, Len(name))

\* re.sub(r'[<>:"/\\|?*]', "_", filename)
InvalidChars == {"<", ">", ":", "\"", "/", "\\", "|", "?", "*"}

\* a sanitizer that drops the invalid characters
RECURSIVE drop_invalid(_)
drop_invalid(filename) ==
    IF filename = <<>> THEN <<>>
    ELSE (IF Head(filename) \in InvalidChars THEN <<>> ELSE <<Head(filename)>>)
         \o drop_invalid(Tail(filename))

RECURSIVE sanitize_filename(_)
sanitize_filename(filename) ==
    IF filename = <<>> THEN <<>>
    ELSE <<IF Head(filename) \in InvalidChars THEN "_" ELSE Head(filename)>>
         \o sanitize_filename(Tail(filename))

(***************************************************************************)
(* TVShowRenamer.extract_episode_number: four patterns, searched           *)
(* case-insensitively, first pattern with a match wins, leftmost match of  *)
(* that pattern.  The result is None when no pattern matches.              *)
(***************************************************************************)
IsDigitAt(s, i) == i >= 1 /\ i <= Len(s) /\ s[i] \in Digits

\* the greedy \d{1,2} group starting at position i (a digit)
Digits12(s, i) == IF IsDigitAt(s, i + 1) THEN SubSeq(s, i, i + 1) ELSE <<s[i]>>

Separators == {".", " ", "_"}

\* <letter>(\d{1,2}) with re.IGNORECASE: positions of the letter before a digit
LetterDigitHits(s, upper, lower) ==
    {i \in 1..Len(s) : s[i] \in {upper, lower} /\ IsDigitAt(s, i + 1)}

Leftmost(hits) == CHOOSE i \in hits : \A j \in hits : i <= j

\* ^(\d{1,2})[\. _]- : the width of the leading number, 0 when no match
LeadingNumberWidth(s) ==
    IF IsDigitAt(s, 1) /\ IsDigitAt(s, 2) /\ Len(s) >= 4
       /\ s[3] \in Separators /\ s[4] = "-" THEN 2
    ELSE IF IsDigitAt(s, 1) /\ Len(s) >= 3
       /\ s[2] \in Separators /\ s[3] = "-" THEN 1
    ELSE 0

\* (\d{2})(?=\D|$) : two digits not followed by a digit
TwoDigitHits(s) ==
    {i \in 1..Len(s) : IsDigitAt(s, i) /\ IsDigitAt(s, i + 1) /\ ~IsDigitAt(s, i + 2)}

extract_episode_number(filename) ==
    LET e == LetterDigitHits(filename, "E", "e")
        x == LetterDigitHits(filename, "X", "x")
        w == LeadingNumberWidth(filename)
        d == TwoDigitHits(filename)
    IN  IF e # {} THEN ToInt(Digits12(filename, Leftmost(e) + 1))
        ELSE IF w # 0 THEN ToInt(SubSeq(filename, 1, w))
        ELSE IF x # {} THEN ToInt(Digits12(filename, Leftmost(x) + 1))
        ELSE IF d # {} THEN ToInt(SubSeq(filename, Leftmost(d), Leftmost(d) + 1))
        ELSE None

(***************************************************************************)
(* The filesystem.  os.rename(src, dst) moves the file at src to dst.  It  *)
(* raises FileNotFoundError when src does not exist.  When another file is *)
(* at dst, the outcome depends on the platform: on Windows it raises       *)
(* FileExistsError, on POSIX it silently replaces the file at dst.         *)
(* Renaming a file to its own path succeeds and changes nothing.           *)
(***************************************************************************)
Exists(f, path) == path \in DOMAIN f

Move(f, src, dst) ==
    [p \in (DOMAIN f \ {src}) \cup {dst} |-> IF p = dst THEN f[src] ELSE f[p]]

os_rename(f, src, dst) ==
    IF ~Exists(f, src) THEN [err |-> "FileNotFoundError", fs |-> f]
    ELSE IF src = dst THEN [err |-> "", fs |-> f]
    ELSE IF Exists(f, dst) /\ platform = "nt" THEN [err |-> "FileExistsError", fs |-> f]
    ELSE [err |-> "", fs |-> Move(f, src, dst)]

(***************************************************************************)
(* The lookup service and the episode resolver.  The catalog is what the   *)
(* service answers when a request succeeds; any request may also raise.    *)
(***************************************************************************)
ShowIds == {1}
Seasons == {1}
CatalogShowName == Chars("e2")
CatalogEpisodeName == Chars("p")
ShowName(id) == IF id = 1 THEN CatalogShowName ELSE Chars("Game of Thrones")
EpisodeName(id, season, episode) ==
    IF id = 1 THEN CatalogEpisodeName ELSE Chars("Winter Is Coming")

\* f"{show_id}_{season}_{episode}"
EpisodeKey(show_id, season, episode) ==
    Decimal(show_id) \o <<"_">> \o Decimal(season) \o <<"_">> \o Decimal(episode)

Lookups(calls, hits) ==
    calls.search + calls.show_details + calls.season_details + calls.episode_details
    + hits.show + hits.season + hits.episode + hits.search

\* str.lower() and str.upper() of one ASCII character
Uppercase == Chars("ABCDEFGHIJKLMNOPQRSTUVWXYZ")
Lowercase == Chars("abcdefghijklmnopqrstuvwxyz")

IndexIn(letters, c) ==
    IF \E i \in 1..Len(letters) : letters[i] = c
    THEN CHOOSE i \in 1..Len(letters) : letters[i] = c
    ELSE 0

lower_char(c) ==
    LET k == IndexIn(Uppercase, c) IN IF k = 0 THEN c ELSE Lowercase[k]

upper_char(c) ==
    LET k == IndexIn(Lowercase, c) IN IF k = 0 THEN c ELSE Uppercase[k]

\* str.lower()
lower(s) == [i \in 1..Len(s) |-> lower_char(s[i])]

\* a dict assignment that forgets every other key
StoreEvicting(cache, key, value) == [k \in {key} |-> value]

\* self.<kind>_cache[cache_key] = value
Store(cache, key, value) ==
    [k \in DOMAIN cache \cup {key} |-> IF k = key THEN value ELSE cache[k]]

\* an except block that stores the failure under the key it was asked for
ResolveFailedCached(called, cache_key, external) ==
    [r |-> [called EXCEPT !.cache = Store(@, cache_key, [name |-> <<>>])],
     found |-> FALSE, data |-> None, external |-> external]

\* except Exception as e: log and return None; called is the resolver state
\* after the counter was incremented, external the requests sent so far
ResolveFailed(called, cache_key, external) ==
    [r |-> called, found |-> FALSE, data |-> None, external |-> external]

\* a cache key that keeps the letter case of the name
ExactKey(show_name) == show_name

\* cache_key = show_name.lower()
ShowKey(show_name) == lower(show_name)

\* f"{show_id}_{season_num}"
SeasonKey(show_id, season_num) == Decimal(show_id) \o <<"_">> \o Decimal(season_num)

\* what the search service can answer to get_show_info: the search request
\* raises, finds nothing, or finds a show whose details request then
\* raises, returns an object without a name, or succeeds
ShowAnswers == {"search raises", "no results", "details raises", "malformed", "ok"}

\* search_results[0].id for a term the service knows
SearchResult(show_name) == IF lower(show_name) = CatalogShowName THEN 1 ELSE 2

\* TVShowRenamer.get_show_info on resolver state r = [cache, calls, hits]
\* with cache the show cache.  Returns the new resolver state, the result
\* (found = FALSE for None) and the requests sent to the service.
get_show_info(r, show_name, answer) ==
    LET cache_key == ShowKey(show_name)
    IN  IF cache_key \in DOMAIN r.cache
        THEN [r |-> [r EXCEPT !.hits.show = @ + 1],
              found |-> TRUE, data |-> r.cache[cache_key], external |-> <<>>]
        ELSE LET called == [r EXCEPT !.calls.search = @ + 1]
                 show_data == [id |-> SearchResult(show_name),
                               name |-> ShowName(SearchResult(show_name))]
             IN  IF answer = "search raises"
                 THEN ResolveFailed(called, cache_key, <<"search.tv_shows">>)
                 ELSE IF answer = "no results"
                 THEN [r |-> called, found |-> FALSE, data |-> None,
                       external |-> <<"search.tv_shows">>]
                 ELSE IF answer \in {"details raises", "malformed"}
                 THEN ResolveFailed(called, cache_key, <<"search.tv_shows", "tv.details">>)
                 ELSE [r |-> [called EXCEPT !.cache = Store(@, cache_key, show_data)],
                       found |-> TRUE, data |-> show_data,
                       external |-> <<"search.tv_shows", "tv.details">>]

\* TVShowRenamer.get_episode_info on resolver state r = [cache, calls, hits];
\* up says whether the request to the service succeeds.  Returns the new
\* resolver state, the result (None for NotFound) and the requests sent.
get_episode_info(r, show_id, season, episode, up) ==
    LET cache_key == EpisodeKey(show_id, season, episode)
    IN  IF cache_key \in DOMAIN r.cache
        THEN [r |-> [r EXCEPT !.hits.episode = @ + 1],
              found |-> TRUE, data |-> r.cache[cache_key], external |-> <<>>]
        ELSE LET called == [r EXCEPT !.calls.episode_details = @ + 1]
                 episode_data == [name |-> EpisodeName(show_id, season, episode),
                                  episode_number |-> episode,
                                  season_number |-> season]
             IN  IF up
                 THEN [r |-> [called EXCEPT !.cache = Store(@, cache_key, episode_data)],
                       found |-> TRUE, data |-> episode_data,
                       external |-> <<"episode.details">>]
                 ELSE ResolveFailed(called, cache_key, <<"episode.details">>)

\* TVShowRenamer.get_season_details on r = [cache, calls, hits] with cache
\* the season cache
get_season_details(r, show_id, season_num, up) ==
    LET cache_key == SeasonKey(show_id, season_num)
    IN  IF cache_key \in DOMAIN r.cache
        THEN [r |-> [r EXCEPT !.hits.season = @ + 1],
              found |-> TRUE, data |-> r.cache[cache_key], external |-> <<>>]
        ELSE LET called == [r EXCEPT !.calls.season_details = @ + 1]
                 season_data == [episodes |->
                                    <<[episode_number |-> 1,
                                       name |-> EpisodeName(show_id, season_num, 1)]>>]
             IN  IF up
                 THEN [r |-> [called EXCEPT !.cache = Store(@, cache_key, season_data)],
                       found |-> TRUE, data |-> season_data,
                       external |-> <<"tv.season">>]
                 ELSE ResolveFailed(called, cache_key, <<"tv.season">>)

\* a preview that reports every failed lookup with one generic status
GenericStatus(season) == "Error"

\* f"Episode not found in season {self.current_season}"
NotFoundStatus(season) == "Episode not found in season " \o ToString(season)

(***************************************************************************)
(* AdvancedRenamer.preview_tv_show_rename on one file entry.               *)
(***************************************************************************)
preview_tv_show_rename(r, show, season, original_name, up) ==
    IF show = None
    THEN [r |-> r, new_name |-> <<>>, status |-> "No show selected"]
    ELSE IF Falsy(season)
    THEN [r |-> r, new_name |-> <<>>, status |-> "No season selected"]
    ELSE LET show_info == extract_episode_number(original_name)
         IN  IF Falsy(show_info)
             THEN [r |-> r, new_name |-> <<>>, status |-> "No episode number found"]
             ELSE LET episode_info == get_episode_info(r, show,
                                          season, show_info, up)
                      extension == SplitExt(original_name)
                      new_name == ShowName(show) \o <<"-", "S">>
                                  \o Pad2(season) \o <<"E">> \o Pad2(show_info)
                                  \o <<"-">> \o episode_info.data.name \o extension
                  IN  IF episode_info.found
                      THEN [r |-> episode_info.r,
                            new_name |-> sanitize_filename(new_name),
                            status |-> "Ready"]
                      ELSE [r |-> episode_info.r, new_name |-> <<>>,
                            status |-> NotFoundStatus(season)]

\* AdvancedRenamer.update_preview: previews every row of the tree in order
\* and writes new_name and status back; st = [rows, r], up says whether
\* the lookup service answers while the handler runs.
RECURSIVE update_preview(_, _, _, _, _)
update_preview(i, st, show, season, up) ==
    IF i > Len(st.rows) THEN st
    ELSE LET p == preview_tv_show_rename(st.r, show, season,
                                             st.rows[i].original_name, up)
         IN  update_preview(i + 1,
                 [rows |-> [st.rows EXCEPT ![i].new_name = p.new_name,
                                           ![i].status = p.status],
                  r |-> p.r],
                 show, season, up)

Resolver == [cache |-> episode_cache, calls |-> api_call_count, hits |-> cache_hits]

SetResolver(r) ==
    /\ Lookups(r.calls, r.hits) <= MaxLookups
    /\ episode_cache' = r.cache
    /\ api_call_count' = r.calls
    /\ cache_hits' = r.hits
    /\ UNCHANGED <<show_cache, season_cache, show_names,
                   performance_stats, sort_state, task_queue, result_queue,
                   worker, submitted, drained>>

Did(op) == [op |-> op, log |-> <<>>, count |-> 0, msg |-> ""]

(***************************************************************************)
(* Handlers of the main window.  \E st \in {e} names the value of e, the   *)
(* state in which a loop of the handler ends.                              *)
(***************************************************************************)
\* add_files / handle_drop -> process_new_files(files)
AddFiles(paths) ==
    /\ Len(rows) + Len(paths) <= MaxRows
    /\ UNCHANGED <<current_show, current_season>>
    /\ LET added == [i \in 1..Len(paths) |->
                        [original_name |-> Basename(paths[i]), new_name |-> <<>>,
                         path |-> paths[i], status |-> "Not processed"]]
       IN  \E up \in BOOLEAN :
           \E st \in {update_preview(1, [rows |-> rows \o added, r |-> Resolver],
                                     current_show, current_season, up)} :
              /\ rows' = st.rows
              /\ SetResolver(st.r)
    /\ last' = Did("preview")
    /\ UNCHANGED <<platform, fs, files, undo_stack, history_list, current_method>>

\* clear_files
ClearFiles ==
    /\ rows # <<>>
    /\ rows' = <<>>
    /\ last' = Did("clear_files")
    /\ UNCHANGED <<platform, fs, files, undo_stack, history_list, current_method,
                   current_show, current_season, episode_cache, api_call_count,
                   cache_hits,
                   show_cache, season_cache, show_names,
                   performance_stats, sort_state, task_queue, result_queue,
                   worker, submitted, drained>>

\* on_method_select with method m selected in the method tree
OnMethodSelect(m) ==
    /\ current_method' = m
    /\ UNCHANGED <<current_show, current_season>>
    /\ \E up \in BOOLEAN :
       \E st \in {update_preview(1, [rows |-> rows, r |-> Resolver],
                                 current_show, current_season, up)} :
          /\ rows' = st.rows
          /\ SetResolver(st.r)
    /\ last' = Did("preview")
    /\ UNCHANGED <<platform, fs, files, undo_stack, history_list>>

\* open_show_dialog when the dialog returns (show, season, episode) with a
\* show: the context is set, the TV method is selected (which previews) and
\* the preview runs once more.
OpenShowDialog(show, season) ==
    /\ current_show' = show
    /\ current_season' = season
    /\ current_method' = "TV Show (TVDB)"
    /\ \E up \in BOOLEAN :
       \E st1 \in {update_preview(1, [rows |-> rows, r |-> Resolver], show, season, up)} :
       \E st2 \in {update_preview(1, st1, show, season, up)} :
          /\ rows' = st2.rows
          /\ SetResolver(st2.r)
    /\ last' = Did("preview")
    /\ UNCHANGED <<platform, fs, files, undo_stack, history_list>>

(***************************************************************************)
(* start_batch.  The loop over the tree is BatchLoop; st carries the tree  *)
(* rows, the filesystem, undo_batch["files"], success_count and the log of *)
(* what was done for each item ("skip", "ok" or the exception raised).     *)
(***************************************************************************)
\* A log entry: what was done for item i.  file is the identity of the file at
\* src when the item was reached and victim that of another file at dst (0
\* when there is none); res is "skip", "absent", "ok" or the exception raised.
Entry(f, i, src, dst, res) ==
    [item |-> i, src |-> src, dst |-> dst, res |-> res,
     file |-> IF Exists(f, src) THEN f[src] ELSE 0,
     victim |-> IF dst # src /\ Exists(f, dst) THEN f[dst] ELSE 0]

NotProcessed == Chars("Not processed")

\* a skip test that lets the empty name through
SkippedOnlyPlaceholder(new_name) == new_name = NotProcessed

\* if not new_name or new_name == "Not processed": continue
Skipped(new_name) == new_name = <<>> \/ new_name = NotProcessed

\* the body of the try block after os.rename returned
RenameSucceeded(st, i, current_path, new_path, moved) ==
    [rows |-> [st.rows EXCEPT ![i].path = new_path, ![i].status = "Success"],
     fs |-> moved,
     files |-> Append(st.files, <<new_path, st.rows[i].original_name>>),
     count |-> st.count + 1,
     log |-> Append(st.log, Entry(st.fs, i, current_path, new_path, "ok"))]

\* an except block that also records the pair in the undo batch
RenameFailedRecorded(st, i, current_path, new_path, e) ==
    [st EXCEPT !.rows[i].path = current_path,
               !.rows[i].status = "Error: " \o e,
               !.files = Append(@, <<new_path, st.rows[i].original_name>>),
               !.log = Append(@, Entry(st.fs, i, current_path, new_path, e))]

\* the except block; e stands for str(e) of the exception raised
RenameFailed(st, i, current_path, new_path, e) ==
    [st EXCEPT !.rows[i].path = current_path,
               !.rows[i].status = "Error: " \o e,
               !.log = Append(@, Entry(st.fs, i, current_path, new_path, e))]

\* one iteration of the loop over the tree
BatchStep(st, i) ==
    LET values == st.rows[i]
        new_name == values.new_name
        current_path == values.path
    IN  IF Skipped(new_name)
        THEN [st EXCEPT !.log = Append(@, Entry(st.fs, i, current_path, current_path, "skip"))]
        ELSE LET new_path == Join(Dirname(current_path), new_name)
                 res == os_rename(st.fs, current_path, new_path)
             IN  IF res.err = ""
                 THEN RenameSucceeded(st, i, current_path, new_path, res.fs)
                 ELSE RenameFailed(st, i, current_path, new_path, res.err)

\* a loop that the first exception leaves
RECURSIVE BatchLoopStopsAtError(_, _)
BatchLoopStopsAtError(i, st) ==
    IF i > Len(st.rows) THEN st
    ELSE LET done == BatchStep(st, i)
         IN  IF done.log[Len(done.log)].res \in {"skip", "ok"}
             THEN BatchLoopStopsAtError(i + 1, done)
             ELSE done

RECURSIVE BatchLoop(_, _)
BatchLoop(i, st) ==
    IF i > Len(st.rows) THEN st
    ELSE BatchLoop(i + 1, BatchStep(st, i))

\* if undo_batch["files"]: self.undo_stack.append(undo_batch)
PushBatch(stack, batch_files) ==
    IF batch_files # <<>> THEN Append(stack, batch_files) ELSE stack

StartBatch ==
    /\ Records < MaxRecords
    /\ rows # <<>>                    \* else "No Files" and return
    /\ current_method # NoMethod      \* else "No Method" and return
    /\ \E st \in {BatchLoop(1, [rows |-> rows, fs |-> fs, files |-> <<>>,
                                count |-> 0, log |-> <<>>])} :
           /\ rows' = st.rows
           /\ fs' = st.fs
           /\ undo_stack' = PushBatch(undo_stack, st.files)
           /\ last' = [op |-> "start_batch", log |-> st.log,
                       count |-> st.count, msg |-> "Batch Complete"]
    /\ UNCHANGED <<platform, files, history_list, current_method, current_show,
                   current_season, episode_cache, api_call_count, cache_hits,
                   show_cache, season_cache, show_names,
                   performance_stats, sort_state, task_queue, result_queue,
                   worker, submitted, drained>>

(***************************************************************************)
(* undo_last_batch.  UndoLoop visits the pairs of the popped batch in list *)
(* order; a pair whose current path does not exist is not renamed.         *)
(***************************************************************************)
\* a pop that takes the oldest batch
pop_first(stack) == [batch |-> Head(stack), rest |-> Tail(stack)]

\* list.pop(): the last element, and the list without it
pop(stack) ==
    [batch |-> stack[Len(stack)], rest |-> SubSeq(stack, 1, Len(stack) - 1)]

\* one iteration of the loop over last_batch["files"]
UndoStep(st, batch_files, i) ==
    LET file_path == batch_files[i][1]
        original_name == batch_files[i][2]
        new_path == Join(Dirname(file_path), original_name)
    IN  IF ~Exists(st.fs, file_path)
        THEN [st EXCEPT !.log = Append(@, Entry(st.fs, i, file_path, new_path, "absent"))]
        ELSE LET res == os_rename(st.fs, file_path, new_path)
             IN  [fs |-> res.fs,
                  log |-> Append(st.log, Entry(st.fs, i, file_path, new_path,
                                               IF res.err = "" THEN "ok" ELSE res.err))]

\* a loop that the first exception leaves
RECURSIVE UndoLoopStopsAtError(_, _, _)
UndoLoopStopsAtError(i, batch_files, st) ==
    IF i > Len(batch_files) THEN st
    ELSE LET done == UndoStep(st, batch_files, i)
         IN  IF done.log[Len(done.log)].res \in {"absent", "ok"}
             THEN UndoLoopStopsAtError(i + 1, batch_files, done)
             ELSE done

RECURSIVE UndoLoop(_, _, _)
UndoLoop(i, batch_files, st) ==
    IF i > Len(batch_files) THEN st
    ELSE UndoLoop(i + 1, batch_files, UndoStep(st, batch_files, i))

UndoLastBatch ==
    /\ IF undo_stack = <<>>
       THEN /\ last' = [Did("undo_last_batch") EXCEPT !.msg = "No Undo Available"]
            /\ UNCHANGED <<rows, fs, undo_stack>>
       ELSE LET popped == pop(undo_stack)
                last_batch == popped.batch
                st == UndoLoop(1, last_batch, [fs |-> fs, log |-> <<>>])
            IN  /\ undo_stack' = popped.rest
                /\ fs' = st.fs
                /\ rows' = <<>>
                /\ last' = [op |-> "undo_last_batch", log |-> st.log,
                            count |-> Len(last_batch), msg |-> "Undo Complete"]
    /\ UNCHANGED <<platform, files, history_list, current_method, current_show,
                   current_season, episode_cache, api_call_count, cache_hits,
                   show_cache, season_cache, show_names,
                   performance_stats, sort_state, task_queue, result_queue,
                   worker, submitted, drained>>

(***************************************************************************)
(* undo_selected on the selected tree items, and add_to_history.  The      *)
(* history keeps the number of files of each entry, newest first.          *)
(***************************************************************************)
HistoryLimit == 10

add_to_history(history, batch_files) ==
    LET inserted == <<Len(batch_files)>> \o history
    IN  IF Len(inserted) > HistoryLimit
        THEN SubSeq(inserted, 1, Len(inserted) - 1)
        ELSE inserted

\* one iteration of the loop over the selection
UndoSelectedStep(st, i) ==
    LET values == st.rows[i]
        original_name == values.original_name
        current_path == values.path
        original_path == Join(Dirname(current_path), original_name)
    IN  IF ~Exists(st.fs, current_path)
        THEN [st EXCEPT !.log = Append(@, Entry(st.fs, i, current_path,
                                                original_path, "absent"))]
        ELSE LET res == os_rename(st.fs, current_path, original_path)
             IN  IF res.err = ""
                 THEN [rows |-> [st.rows EXCEPT ![i].new_name = <<>>,
                                                ![i].path = original_path,
                                                ![i].status = "Undone"],
                       fs |-> res.fs,
                       files |-> Append(st.files, <<current_path, original_name>>),
                       log |-> Append(st.log, Entry(st.fs, i, current_path,
                                                    original_path, "ok"))]
                 ELSE [st EXCEPT !.rows[i].new_name = <<>>,
                                 !.rows[i].path = current_path,
                                 !.rows[i].status = "Undo failed: " \o res.err,
                                 !.log = Append(@, Entry(st.fs, i, current_path,
                                                         original_path, res.err))]

RECURSIVE UndoSelectedLoop(_, _, _)
UndoSelectedLoop(i, selected, st) ==
    IF i > Len(st.rows) THEN st
    ELSE IF i \notin selected THEN UndoSelectedLoop(i + 1, selected, st)
    ELSE UndoSelectedLoop(i + 1, selected, UndoSelectedStep(st, i))

\* an undo of the selection that also pushes its record on the undo stack
UndoSelectedPushes(selected) ==
    /\ Records < MaxRecords
    /\ selected # {}
    /\ \E st \in {UndoSelectedLoop(1, selected,
                        [rows |-> rows, fs |-> fs, files |-> <<>>, log |-> <<>>])} :
           /\ rows' = st.rows
           /\ fs' = st.fs
           /\ history_list' = IF st.files # <<>>
                              THEN add_to_history(history_list, st.files)
                              ELSE history_list
           /\ undo_stack' = PushBatch(undo_stack, st.files)
           /\ last' = [op |-> "undo_selected", log |-> st.log,
                       count |-> Len(st.files), msg |-> ""]
    /\ UNCHANGED <<platform, files, current_method, current_show,
                   current_season, episode_cache, api_call_count, cache_hits,
                   show_cache, season_cache, show_names,
                   performance_stats, sort_state, task_queue, result_queue,
                   worker, submitted, drained>>

UndoSelected(selected) ==
    /\ Records < MaxRecords
    /\ selected # {}                  \* else return
    /\ \E st \in {UndoSelectedLoop(1, selected,
                        [rows |-> rows, fs |-> fs, files |-> <<>>, log |-> <<>>])} :
           /\ rows' = st.rows
           /\ fs' = st.fs
           /\ history_list' = IF st.files # <<>>
                              THEN add_to_history(history_list, st.files)
                              ELSE history_list
           /\ last' = [op |-> "undo_selected", log |-> st.log,
                       count |-> Len(st.files), msg |-> ""]
    /\ UNCHANGED <<platform, files, undo_stack, current_method, current_show,
                   current_season, episode_cache, api_call_count, cache_hits,
                   show_cache, season_cache, show_names,
                   performance_stats, sort_state, task_queue, result_queue,
                   worker, submitted, drained>>

(***************************************************************************)
(* The initial state: the window right after construction, over a          *)
(* directory that holds two files.                                         *)
(***************************************************************************)
FileE1 == Chars("d/E1")
FileE2 == Chars("d/e2-S01E01-p")

InitialFiles == {FileE1, FileE2}

FileId(path) == IF path = FileE1 THEN 1 ELSE 2

Methods == {"TV Show (TVDB)"}

Columns == {"Original Name", "New Name", "Path", "Status"}

NoTask == [id |-> 0, raises |-> FALSE]

\* what __init__ sets up besides the working set: the resolver's timing
\* lists are empty, no column was sorted, both queues are empty and the
\* worker thread waits for its first task
Fresh ==
    /\ performance_stats = [api_times |-> 0, cache_times |-> 0]
    /\ sort_state = [col \in Columns |-> FALSE]
    /\ task_queue = <<>>
    /\ result_queue = <<>>
    /\ worker = [pc |-> "get", task |-> NoTask]
    /\ submitted = <<>>
    /\ drained = <<>>

ZeroCalls == [search |-> 0, show_details |-> 0, season_details |-> 0,
              episode_details |-> 0]
ZeroHits == [show |-> 0, season |-> 0, episode |-> 0, search |-> 0]

Init ==
    /\ platform \in {"posix", "nt"}
    /\ fs = [p \in InitialFiles |-> FileId(p)]
    /\ rows = <<>>
    /\ files = <<>>
    /\ undo_stack = <<>>
    /\ history_list = <<>>
    /\ current_method = NoMethod
    /\ current_show = None
    /\ current_season = None
    /\ episode_cache = <<>>
    /\ api_call_count = ZeroCalls
    /\ cache_hits = ZeroHits
    /\ show_cache = <<>>
    /\ season_cache = <<>>
    /\ show_names = {}
    /\ Fresh
    /\ last = Did("init")

\* the files chosen in the file dialog or dropped: one or two existing files
FileTuples ==
    {<<p>> : p \in DOMAIN fs}
    \cup {<<pq[1], pq[2]>> : pq \in {x \in (DOMAIN fs) \X (DOMAIN fs) : x[1] # x[2]}}

Next ==
    \/ \E paths \in FileTuples : AddFiles(paths)
    \/ ClearFiles
    \/ \E m \in Methods : OnMethodSelect(m)
    \/ \E show \in ShowIds, season \in Seasons \cup {None} : OpenShowDialog(show, season)
    \/ StartBatch
    \/ UndoLastBatch
    \/ \E selected \in SUBSET (1..Len(rows)) : UndoSelected(selected)

Spec == Init /\ [][Next]_vars

(***************************************************************************)
(* The first window, main.py: the same tree and undo stack, but the        *)
(* working set is the list self.files of FileEntry objects and the tree    *)
(* only displays it.  Its TVDB method resolves names through               *)
(* src/tv_show_renamer.py and its <Date> method reads the creation time of *)
(* the file; neither is selected here.                                     *)
(***************************************************************************)
MainMethods == {"<Inc Nr>", "<Name>", "<Ext>"}

\* os.path.splitext(name)[0]
SplitStem(name) == SubSeq(name, 1, Len(name) - Len(SplitExt(name)))

\* f"{index:03d}" for index >= 0
Pad3(n) == IF n < 10 THEN <<"0", "0">> \o Decimal(n)
           ELSE IF n < 100 THEN <<"0">> \o Decimal(n) ELSE Decimal(n)

\* main.py generate_new_name(file_entry, index) under the method named
main_generate_new_name(method, entry, index) ==
    LET original_name == entry.original_name
        name == SplitStem(original_name)
        ext == SplitExt(original_name)
    IN  IF method = "<Inc Nr>" THEN Pad3(index) \o ext
        ELSE IF method = "<Name>" THEN name
        ELSE IF method = "<Ext>" THEN (IF ext # <<>> THEN SubSeq(ext, 2, Len(ext)) ELSE <<>>)
        ELSE original_name

\* main.py process_new_files
MainAddFiles(paths) ==
    /\ Len(files) + Len(paths) <= MaxRows
    /\ files' = files \o [i \in 1..Len(paths) |->
                    [original_name |-> Basename(paths[i]), new_name |-> <<>>,
                     path |-> paths[i], status |-> "Pending"]]
    /\ rows' = rows \o [i \in 1..Len(paths) |->
                    [original_name |-> Basename(paths[i]), new_name |-> NotProcessed,
                     path |-> paths[i], status |-> "Pending"]]
    /\ last' = Did("preview")
    /\ UNCHANGED <<platform, fs, undo_stack, history_list, current_method,
                   current_show, current_season, episode_cache, api_call_count,
                   cache_hits,
                   show_cache, season_cache, show_names,
                   performance_stats, sort_state, task_queue, result_queue,
                   worker, submitted, drained>>

\* main.py clear_files
MainClearFiles ==
    /\ files # <<>>
    /\ files' = <<>>
    /\ rows' = <<>>
    /\ last' = Did("clear_files")
    /\ UNCHANGED <<platform, fs, undo_stack, history_list, current_method,
                   current_show, current_season, episode_cache, api_call_count,
                   cache_hits,
                   show_cache, season_cache, show_names,
                   performance_stats, sort_state, task_queue, result_queue,
                   worker, submitted, drained>>

\* main.py on_method_select -> update_preview: every entry gets the name of
\* the method with index 1 and the tree is rebuilt from self.files
MainOnMethodSelect(m) ==
    /\ current_method' = m
    /\ files' = [i \in 1..Len(files) |->
                    [files[i] EXCEPT !.new_name = main_generate_new_name(m, files[i], 1),
                                     !.status = "Ready"]]
    /\ rows' = files'
    /\ last' = Did("preview")
    /\ UNCHANGED <<platform, fs, undo_stack, history_list, current_show,
                   current_season, episode_cache, api_call_count, cache_hits,
                   show_cache, season_cache, show_names,
                   performance_stats, sort_state, task_queue, result_queue,
                   worker, submitted, drained>>

\* the tree rows whose path column equals the entry's path take its values
MainShow(tree, entry, shown_path) ==
    [k \in 1..Len(tree) |->
        IF tree[k].path = entry.path
        THEN [original_name |-> entry.original_name, new_name |-> entry.new_name,
              path |-> shown_path, status |-> entry.status]
        ELSE tree[k]]

\* main.py start_batch: the loop over self.files; st = [files, rows, fs, count, log]
RECURSIVE MainBatchLoop(_, _)
MainBatchLoop(i, st) ==
    IF i > Len(st.files) THEN st
    ELSE LET file_entry == st.files[i]
         IN  IF file_entry.new_name = <<>>
             THEN MainBatchLoop(i + 1,
                      [st EXCEPT !.log = Append(@, Entry(st.fs, i, file_entry.path,
                                                         file_entry.path, "skip"))])
             ELSE LET new_path == Join(Dirname(file_entry.path), file_entry.new_name)
                      res == os_rename(st.fs, file_entry.path, new_path)
                      done == [file_entry EXCEPT !.status =
                                  IF res.err = "" THEN "Success" ELSE "Error: " \o res.err]
                  IN  MainBatchLoop(i + 1,
                          [files |-> [st.files EXCEPT ![i] = done],
                           rows |-> MainShow(st.rows, done,
                                        IF res.err = "" THEN new_path ELSE file_entry.path),
                           fs |-> res.fs,
                           count |-> st.count + (IF res.err = "" THEN 1 ELSE 0),
                           log |-> Append(st.log, Entry(st.fs, i, file_entry.path, new_path,
                                              IF res.err = "" THEN "ok" ELSE res.err))])

MainStartBatch ==
    /\ Records < MaxRecords
    /\ files # <<>>                   \* else "No Files" and return
    /\ current_method # NoMethod      \* else "No Method" and return
    /\ LET undo_batch == [i \in 1..Len(files) |-> <<files[i].path, files[i].original_name>>]
           st == MainBatchLoop(1, [files |-> files, rows |-> rows, fs |-> fs,
                                   count |-> 0, log |-> <<>>])
       IN  /\ files' = st.files
           /\ rows' = st.rows
           /\ fs' = st.fs
           /\ undo_stack' = Append(undo_stack, undo_batch)
           /\ last' = [op |-> "start_batch", log |-> st.log,
                       count |-> st.count, msg |-> "Batch Complete"]
    /\ UNCHANGED <<platform, history_list, current_method, current_show,
                   current_season, episode_cache, api_call_count, cache_hits,
                   show_cache, season_cache, show_names,
                   performance_stats, sort_state, task_queue, result_queue,
                   worker, submitted, drained>>

\* main.py undo_last_batch
MainUndoLastBatch ==
    /\ IF undo_stack = <<>>
       THEN /\ last' = [Did("undo_last_batch") EXCEPT !.msg = "No Undo Available"]
            /\ UNCHANGED <<rows, files, fs, undo_stack>>
       ELSE LET popped == pop(undo_stack)
                last_batch == popped.batch
                st == UndoLoop(1, last_batch, [fs |-> fs, log |-> <<>>])
            IN  /\ undo_stack' = popped.rest
                /\ fs' = st.fs
                /\ rows' = <<>>
                /\ files' = <<>>
                /\ last' = [op |-> "undo_last_batch", log |-> st.log,
                            count |-> Len(last_batch), msg |-> "Undo Complete"]
    /\ UNCHANGED <<platform, history_list, current_method, current_show,
                   current_season, episode_cache, api_call_count, cache_hits,
                   show_cache, season_cache, show_names,
                   performance_stats, sort_state, task_queue, result_queue,
                   worker, submitted, drained>>

MainNext ==
    \/ \E paths \in FileTuples : MainAddFiles(paths)
    \/ MainClearFiles
    \/ \E m \in MainMethods : MainOnMethodSelect(m)
    \/ MainStartBatch
    \/ MainUndoLastBatch

SpecMain == Init /\ [][MainNext]_vars

(***************************************************************************)
(* format_show_name of src/src/utils/logger.py: the title formatting rule. *)
(***************************************************************************)
Whitespace == {" ", "\t"}

IsLetter(c) == IndexIn(Uppercase, c) # 0 \/ IndexIn(Lowercase, c) # 0

\* the length of the word s starts with (s starts with no whitespace)
WordLength(s) ==
    IF \E i \in 1..Len(s) : s[i] \in Whitespace
    THEN (CHOOSE i \in 1..Len(s) :
             s[i] \in Whitespace /\ \A j \in 1..(i - 1) : s[j] \notin Whitespace) - 1
    ELSE Len(s)

\* name.strip().split()
RECURSIVE split(_)
split(s) ==
    IF s = <<>> THEN <<>>
    ELSE IF Head(s) \in Whitespace THEN split(Tail(s))
    ELSE <<SubSeq(s, 1, WordLength(s))>> \o split(SubSeq(s, WordLength(s) + 1, Len(s)))

\* a title() that leaves the word as it is
keep_case(word) == word

\* str.title(): a letter is upper case when no letter precedes it, lower
\* case otherwise
title(word) ==
    [i \in 1..Len(word) |->
        IF ~IsLetter(word[i]) THEN word[i]
        ELSE IF i > 1 /\ IsLetter(word[i - 1]) THEN lower_char(word[i])
        ELSE upper_char(word[i])]

\* " ".join(words)
RECURSIVE join(_)
join(words) ==
    IF words = <<>> THEN <<>>
    ELSE IF Len(words) = 1 THEN words[1]
    ELSE words[1] \o <<" ">> \o join(Tail(words))

articles ==
    {Chars("a"), Chars("an"), Chars("the"), Chars("in"), Chars("on"), Chars("at"),
     Chars("for"), Chars("to"), Chars("of"), Chars("with"), Chars("by")}

format_show_name(name) ==
    LET words == split(name)
    IN  join([i \in 1..Len(words) |->
                 IF i = 1 \/ lower(words[i]) \notin articles
                 THEN title(words[i])
                 ELSE lower(words[i])])

(***************************************************************************)
(* The preview on its own: the window over a directory of differently      *)
(* named files, opened with any show context; files are added one at a     *)
(* time and the TV method is selected, both of which run update_preview.   *)
(***************************************************************************)
PreviewFiles ==
    <<Chars("d/The.Wire.S01E01.Pilot.avi"), Chars("d/01 - Winter Is Coming.mkv"),
      Chars("d/notes.txt"), Chars("d/Show.E00.mkv"), Chars("d/show 1x05.mkv")>>

PreviewShowIds == {1, 2}

InitPreview ==
    /\ platform \in {"posix", "nt"}
    /\ fs = [p \in {PreviewFiles[i] : i \in 1..Len(PreviewFiles)} |->
                CHOOSE i \in 1..Len(PreviewFiles) : PreviewFiles[i] = p]
    /\ rows = <<>>
    /\ files = <<>>
    /\ undo_stack = <<>>
    /\ history_list = <<>>
    /\ current_show \in {None} \cup PreviewShowIds
    \* open_show_dialog sets the season and the TV method along with a show
    /\ current_season \in {None} \cup {season \in Seasons : current_show # None}
    /\ current_method \in {m \in {NoMethod} \cup Methods :
                              current_show = None \/ m # NoMethod}
    /\ episode_cache = <<>>
    /\ api_call_count = ZeroCalls
    /\ cache_hits = ZeroHits
    /\ show_cache = <<>>
    /\ season_cache = <<>>
    /\ show_names = {}
    /\ Fresh
    /\ last = Did("init")

PreviewNext ==
    \/ \E p \in DOMAIN fs : AddFiles(<<p>>)
    \/ \E m \in Methods : OnMethodSelect(m)

SpecPreview == InitPreview /\ [][PreviewNext]_vars

(***************************************************************************)
(* The resolver on its own: any caller may ask for a show by name, for a   *)
(* season or for an episode, in any order, and the service may fail at any *)
(* request.  last keeps the arguments, the result and the requests sent.   *)
(***************************************************************************)
ShowQueries == {Chars("e2"), Chars("E2"), Chars("got")}
ResolverShowIds == {1, 2}
ResolverSeasons == {1, 2}
ResolverEpisodes == {1}

Called(op, args, res) ==
    [op |-> op, log |-> res.external, count |-> 0, msg |-> "",
     args |-> args, found |-> res.found, data |-> res.data]

\* the decorator on get_show_info: the call is timed, and the time goes to
\* cache_times when the call returned something and any hit counter of the
\* resolver is positive, to api_times otherwise
measure_performance(stats, result, hits) ==
    IF result /\ \E kind \in DOMAIN hits : hits[kind] > 0
    THEN [stats EXCEPT !.cache_times = @ + 1]
    ELSE [stats EXCEPT !.api_times = @ + 1]

get_performance_stats(stats) ==
    [api_calls_count |-> stats.api_times, cache_hits_count |-> stats.cache_times]

GetShowInfo(show_name, answer) ==
    /\ \E res \in {get_show_info([cache |-> show_cache, calls |-> api_call_count,
                                  hits |-> cache_hits], show_name, answer)} :
          /\ Lookups(res.r.calls, res.r.hits) <= MaxCalls
          /\ show_cache' = res.r.cache
          /\ api_call_count' = res.r.calls
          /\ cache_hits' = res.r.hits
          /\ performance_stats' =
                 measure_performance(performance_stats, res.found, res.r.hits)
          /\ last' = Called("get_show_info", <<show_name>>, res)
    /\ show_names' = show_names \cup {lower(show_name)}
    /\ UNCHANGED <<platform, fs, rows, files, undo_stack, history_list,
                   current_method, current_show, current_season, episode_cache,
                   season_cache, sort_state, task_queue, result_queue, worker,
                   submitted, drained>>

GetSeasonDetails(show_id, season_num, up) ==
    /\ \E res \in {get_season_details([cache |-> season_cache, calls |-> api_call_count,
                                       hits |-> cache_hits], show_id, season_num, up)} :
          /\ Lookups(res.r.calls, res.r.hits) <= MaxCalls
          /\ season_cache' = res.r.cache
          /\ api_call_count' = res.r.calls
          /\ cache_hits' = res.r.hits
          /\ last' = Called("get_season_details", <<show_id, season_num>>, res)
    /\ UNCHANGED <<platform, fs, rows, files, undo_stack, history_list,
                   current_method, current_show, current_season, episode_cache,
                   show_cache, show_names,
                   performance_stats, sort_state, task_queue, result_queue,
                   worker, submitted, drained>>

GetEpisodeInfo(show_id, season, episode, up) ==
    /\ \E res \in {get_episode_info(Resolver, show_id, season, episode, up)} :
          /\ Lookups(res.r.calls, res.r.hits) <= MaxCalls
          /\ episode_cache' = res.r.cache
          /\ api_call_count' = res.r.calls
          /\ cache_hits' = res.r.hits
          /\ last' = Called("get_episode_info", <<show_id, season, episode>>, res)
    /\ UNCHANGED <<platform, fs, rows, files, undo_stack, history_list,
                   current_method, current_show, current_season, show_cache,
                   season_cache, show_names,
                   performance_stats, sort_state, task_queue, result_queue,
                   worker, submitted, drained>>

ResolverNext ==
    \/ \E show_name \in ShowQueries, answer \in ShowAnswers :
          GetShowInfo(show_name, answer)
    \/ \E show_id \in ResolverShowIds, season_num \in ResolverSeasons, up \in BOOLEAN :
          GetSeasonDetails(show_id, season_num, up)
    \/ \E show_id \in ResolverShowIds, season \in ResolverSeasons,
          episode \in ResolverEpisodes, up \in BOOLEAN :
          GetEpisodeInfo(show_id, season, episode, up)

SpecResolver == Init /\ [][ResolverNext]_vars

(***************************************************************************)
(* sanitize_filename on its own: applied to any short name over the        *)
(* characters it replaces and a few it keeps, and again to its own result. *)
(***************************************************************************)
MaxNameLen == 2

SanitizeAlphabet == InvalidChars \cup {"a", "_", "."}

Names == UNION {[1..n -> SanitizeAlphabet] : n \in 0..MaxNameLen}

InitSanitize ==
    /\ platform \in {"posix", "nt"}
    /\ fs = <<>>
    /\ rows = <<>>
    /\ files = <<>>
    /\ undo_stack = <<>>
    /\ history_list = <<>>
    /\ current_method = NoMethod
    /\ current_show = None
    /\ current_season = None
    /\ episode_cache = <<>>
    /\ api_call_count = ZeroCalls
    /\ cache_hits = ZeroHits
    /\ show_cache = <<>>
    /\ season_cache = <<>>
    /\ show_names = {}
    /\ Fresh
    /\ \E filename \in Names :
          last = [op |-> "input", log |-> <<>>, count |-> 0, msg |-> "",
                  args |-> <<filename>>, found |-> FALSE, data |-> <<>>]

\* sanitize_filename(filename), on the input first and then on its result
SanitizeFilename ==
    /\ LET filename == IF last.op = "input" THEN last.args[1] ELSE last.data
       IN  last' = [op |-> "sanitize_filename", log |-> <<>>, count |-> 0, msg |-> "",
                    args |-> <<filename>>, found |-> TRUE,
                    data |-> sanitize_filename(filename)]
    /\ UNCHANGED <<platform, fs, rows, files, undo_stack, history_list,
                   current_method, current_show, current_season, episode_cache,
                   api_call_count, cache_hits, show_cache, season_cache, show_names,
                   performance_stats, sort_state, task_queue, result_queue,
                   worker, submitted, drained>>

SpecSanitize == InitSanitize /\ [][SanitizeFilename]_vars

(***************************************************************************)
(* The pure functions on their own.  Quiet is the window and the resolver  *)
(* as constructed; last holds the argument, then the call and its result.  *)
(***************************************************************************)
Quiet ==
    /\ platform \in {"posix", "nt"}
    /\ fs = <<>>
    /\ rows = <<>>
    /\ files = <<>>
    /\ undo_stack = <<>>
    /\ history_list = <<>>
    /\ current_method = NoMethod
    /\ current_show = None
    /\ current_season = None
    /\ episode_cache = <<>>
    /\ api_call_count = ZeroCalls
    /\ cache_hits = ZeroHits
    /\ show_cache = <<>>
    /\ season_cache = <<>>
    /\ show_names = {}
    /\ Fresh

Input(args) ==
    [op |-> "input", log |-> <<>>, count |-> 0, msg |-> "",
     args |-> args, found |-> FALSE, data |-> <<>>]

Returned(op, args, data) ==
    [op |-> op, log |-> <<>>, count |-> 0, msg |-> "",
     args |-> args, found |-> TRUE, data |-> data]

UnchangedWindow ==
    UNCHANGED <<platform, fs, rows, files, undo_stack, history_list,
                current_method, current_show, current_season, episode_cache,
                api_call_count, cache_hits, show_cache, season_cache, show_names,
                   performance_stats, sort_state, task_queue, result_queue,
                   worker, submitted, drained>>

\* the concatenations of at most n of the given pieces
RECURSIVE Concatenations(_, _)
Concatenations(pieces, n) ==
    IF n = 0 THEN {<<>>}
    ELSE LET shorter == Concatenations(pieces, n - 1)
         IN  shorter \cup {s \o p : s \in shorter, p \in pieces}

(***************************************************************************)
(* format_show_name on names put together from a few words and blanks.     *)
(***************************************************************************)
MaxTokens == 3

TitleTokens ==
    {Chars("the"), Chars("of"), Chars("OF"), Chars("lORD"), Chars("x2y"),
     Chars(" "), Chars("\t")}

TitleNames == Concatenations(TitleTokens, MaxTokens) \cup {Chars("the lord of the rings")}

InitTitle == Quiet /\ \E name \in TitleNames : last = Input(<<name>>)

FormatShowName ==
    /\ last.op = "input"
    /\ last' = Returned("format_show_name", last.args, format_show_name(last.args[1]))
    /\ UnchangedWindow

SpecTitle == InitTitle /\ [][FormatShowName]_vars

(***************************************************************************)
(* Properties.  last holds the log of the handler that ran last, so a      *)
(* property of a handler reads last' against the state before it.          *)
(***************************************************************************)
IsOk(e) == e.res = "ok"

IsError(e) == e.res \notin {"skip", "absent", "ok"}

Top(stack) == stack[Len(stack)]

\* the renames of a log that succeeded, applied to f in the order of the log
RECURSIVE Replay(_, _)
Replay(f, log) ==
    IF log = <<>> THEN f
    ELSE LET e == Head(log)
         IN  Replay(IF IsOk(e) /\ e.src # e.dst THEN Move(f, e.src, e.dst) ELSE f,
                    Tail(log))

\* the undo record of a batch log over the rows it ran on
Record(log, tree) ==
    LET oks == SelectSeq(log, IsOk)
    IN  [k \in 1..Len(oks) |-> <<oks[k].dst, tree[oks[k].item].original_name>>]

\* C1: when undo_last_batch follows a start_batch that renamed every entry,
\* every file that is still at its new path is back at its old path after the
\* undo, and the batch is off the stack (a stack of one batch is empty).
C1_UndoRoundTrip ==
    [][(/\ last.op = "start_batch"
        /\ last.count > 0
        /\ last.count = Len(last.log)
        /\ last'.op = "undo_last_batch")
       => /\ \A k \in 1..Len(last.log) :
                LET e == last.log[k]
                IN  (Exists(fs, e.dst) /\ fs[e.dst] = e.file)
                        => (Exists(fs', e.src) /\ fs'[e.src] = e.file)
          /\ Len(undo_stack) = 1 => undo_stack' = <<>>]_vars

\* C2: start_batch makes one rename attempt, to (same directory, proposed
\* name), for every row with a non-empty proposed name; a failed row gets the
\* status Error(message) and keeps its path, a renamed row gets Success and
\* the new path, and the undo record is the (new path, original name) pairs
\* of the renamed rows in processing order.
C2_OneAttemptPerEntry ==
    [][last'.op = "start_batch"
       => LET log == last'.log
          IN  /\ Len(log) = Len(rows)
              /\ \A i \in 1..Len(rows) :
                    LET e == log[i]
                    IN  /\ e.item = i
                        /\ e.src = rows[i].path
                        /\ rows[i].new_name # <<>> =>
                              /\ e.dst = Join(Dirname(rows[i].path), rows[i].new_name)
                              /\ IsOk(e) \/ IsError(e)
                              /\ IsOk(e) =>
                                    rows'[i] = [rows[i] EXCEPT !.path = e.dst,
                                                               !.status = "Success"]
                              /\ IsError(e) =>
                                    rows'[i] = [rows[i] EXCEPT !.status = "Error: " \o e.res]
              /\ fs' = Replay(fs, log)
              /\ last'.count = Len(Record(log, rows))
              /\ undo_stack' = IF Record(log, rows) = <<>> THEN undo_stack
                               ELSE Append(undo_stack, Record(log, rows))]_vars

\* a batch in which one row failed and another was renamed
C2_Witness ==
    /\ last.op = "start_batch"
    /\ \E i, j \in 1..Len(last.log) : IsError(last.log[i]) /\ IsOk(last.log[j])
    /\ undo_stack # <<>>

\* C3: start_batch pushes a batch iff at least one rename succeeded, the
\* batch has as many pairs as the reported success count, and no batch on
\* the undo stack is empty.
C3_PushedIffRenamed ==
    [][last'.op = "start_batch"
       => /\ IF last'.count > 0
             THEN /\ Len(undo_stack') = Len(undo_stack) + 1
                  /\ SubSeq(undo_stack', 1, Len(undo_stack)) = undo_stack
                  /\ Len(Top(undo_stack')) = last'.count
             ELSE undo_stack' = undo_stack
          /\ \A k \in 1..Len(undo_stack') : undo_stack'[k] # <<>>]_vars

\* C4: start_batch skips a row whose proposed name is empty: the row is left
\* as it was, and the success count and the undo record count only renamed
\* rows that had a name; a batch of nameless rows changes nothing.
C4_EmptyNameSkipped ==
    [][last'.op = "start_batch"
       => LET log == last'.log
              renamed == {i \in 1..Len(rows) : rows[i].new_name # <<>> /\ IsOk(log[i])}
          IN  /\ \A i \in 1..Len(rows) :
                    rows[i].new_name = <<>> => /\ log[i].res = "skip"
                                             /\ rows'[i] = rows[i]
              /\ last'.count = Cardinality(renamed)
              /\ IF renamed = {} THEN undo_stack' = undo_stack
                 ELSE /\ Len(undo_stack') = Len(undo_stack) + 1
                      /\ Len(Top(undo_stack')) = Cardinality(renamed)
              /\ (\A i \in 1..Len(rows) : rows[i].new_name = <<>>)
                    => fs' = fs /\ rows' = rows]_vars

\* a batch with a skipped row and a renamed row
C4_Witness ==
    /\ last.op = "start_batch"
    /\ \E i, j \in 1..Len(last.log) :
          /\ last.log[i].res = "skip" /\ rows[i].new_name = <<>>
          /\ IsOk(last.log[j])

\* C5: a failed rename does not end the batch and undoes nothing: every row
\* has its entry in the log, every later row with a name is attempted, the
\* directory after the batch is exactly the successful renames applied in
\* order, and a renamed or failed file that no later rename of the batch
\* moved or replaced is where its own step left it.
C5_FailureDoesNotInterrupt ==
    [][last'.op = "start_batch"
       => LET log == last'.log
              Untouched(k, path) ==
                  \A j \in (k + 1)..Len(log) :
                      IsOk(log[j]) /\ log[j].src # log[j].dst
                          => log[j].src # path /\ log[j].dst # path
          IN  /\ Len(log) = Len(rows)
              /\ fs' = Replay(fs, log)
              /\ \A i \in 1..Len(log) : IsError(log[i]) =>
                    /\ \A j \in (i + 1)..Len(log) :
                          rows[j].new_name # <<>> => IsOk(log[j]) \/ IsError(log[j])
                    /\ \A j \in 1..(i - 1) :
                          IsOk(log[j]) /\ Untouched(j, log[j].dst)
                              => /\ Exists(fs', log[j].dst)
                                 /\ fs'[log[j].dst] = log[j].file
                                 /\ rows'[j].status = "Success"
                    /\ log[i].file # 0 /\ Untouched(i, log[i].src)
                          => /\ Exists(fs', log[i].src)
                             /\ fs'[log[i].src] = log[i].file
                             /\ rows'[i].path = log[i].src]_vars

\* a batch in which a row failed and a later row was renamed
C5_Witness ==
    /\ last.op = "start_batch"
    /\ \E i, j \in 1..Len(last.log) :
          i < j /\ IsError(last.log[i]) /\ last.log[i].file # 0 /\ IsOk(last.log[j])

\* C6: a row whose target path holds another file when its rename is made
\* ends with status Error and is not in the undo record, and the file that
\* was at the target path is still in the directory after the batch.
C6_CollisionIsFailure ==
    [][last'.op = "start_batch"
       => \A i \in 1..Len(last'.log) :
             LET e == last'.log[i]
             IN  e.res # "skip" /\ e.victim # 0
                    => /\ IsError(e)
                       /\ rows'[i].status = "Error: " \o e.res
                       /\ rows'[i].path = e.src
                       /\ \E p \in DOMAIN fs' : fs'[p] = e.victim]_vars

\* C7: undo_last_batch on an empty stack reports "No Undo Available" and
\* changes neither the directory, the tree nor the stack; otherwise it undoes
\* the pairs of the batch pushed last and leaves the batches under it as
\* they were.
C7_UndoPopsMostRecent ==
    [][last'.op = "undo_last_batch"
       => IF undo_stack = <<>>
          THEN /\ last'.msg = "No Undo Available"
               /\ UNCHANGED <<fs, rows, undo_stack>>
          ELSE /\ last'.msg = "Undo Complete"
               /\ undo_stack' = SubSeq(undo_stack, 1, Len(undo_stack) - 1)
               /\ Len(last'.log) = Len(Top(undo_stack))
               /\ \A i \in 1..Len(last'.log) :
                     last'.log[i].src = Top(undo_stack)[i][1]]_vars

\* an undo that left an older batch, different from the one undone, on the stack
C7_Witness ==
    /\ last.op = "undo_last_batch"
    /\ last.msg = "Undo Complete"
    /\ undo_stack # <<>>
    /\ \E i \in 1..Len(last.log) :
          i > Len(Top(undo_stack)) \/ Top(undo_stack)[i][1] # last.log[i].src

\* C8: undo_last_batch visits every pair of the popped batch in order; a
\* pair is renamed back, to (same directory, original name), exactly when a
\* file is at its current path when the pair is reached, whatever happened
\* to the pairs before it, and the directory after the undo is the
\* successful renames applied in order.
C8_UndoBestEffort ==
    [][last'.op = "undo_last_batch" /\ undo_stack # <<>>
       => LET batch == Top(undo_stack)
              log == last'.log
          IN  /\ Len(log) = Len(batch)
              /\ \A i \in 1..Len(batch) :
                    LET e == log[i]
                        reached == Replay(fs, SubSeq(log, 1, i - 1))
                    IN  /\ e.item = i
                        /\ e.src = batch[i][1]
                        /\ e.dst = Join(Dirname(batch[i][1]), batch[i][2])
                        /\ (e.res = "absent") <=> ~Exists(reached, e.src)
                        /\ e.res # "absent" => IsOk(e) \/ IsError(e)
              /\ fs' = Replay(fs, log)]_vars

\* an undo in which a pair failed and a later pair was renamed back
C8_Witness ==
    /\ last.op = "undo_last_batch"
    /\ \E i, j \in 1..Len(last.log) :
          i < j /\ IsError(last.log[i]) /\ IsOk(last.log[j])

\* C9: undo_selected leaves the undo stack as it was.
C9_UndoSelectedKeepsStack ==
    [][last'.op = "undo_selected" => undo_stack' = undo_stack]_vars

\* an undo of a selection that renamed a file back, with a batch on the stack
C9_Witness ==
    /\ last.op = "undo_selected"
    /\ \E i \in 1..Len(last.log) :
          IsOk(last.log[i]) /\ last.log[i].src # last.log[i].dst
    /\ history_list # <<>>
    /\ undo_stack # <<>>

\* C10: undo_selected leaves a selected row whose status is not Success as
\* it was: the row is not renamed, not marked Undone and not counted in the
\* entry added to the undo history.
C10_OnlySuccessUndone ==
    [][last'.op = "undo_selected"
       => /\ \A k \in 1..Len(last'.log) :
                LET e == last'.log[k]
                IN  rows[e.item].status # "Success"
                       => ~IsOk(e) /\ rows'[e.item] = rows[e.item]
          /\ last'.count <= Cardinality({i \in 1..Len(rows) : rows[i].status = "Success"})
          /\ last'.count = 0 => history_list' = history_list]_vars

\* the statuses start_batch leaves behind
IsSuccessStatus(status) == status = "Success"

IsErrorStatus(status) ==
    status \in {"Error: " \o e : e \in {"FileNotFoundError", "FileExistsError"}}

\* C11: an entry whose status is Success or Error(message) is final for a
\* batch: a preview, start_batch or undo_selected that keeps the entry in
\* the tree never sets its status back to Ready, and a later start_batch
\* makes no rename attempt for it; the only way on is Success -> Undone.
C11_StatusLifecycle ==
    [][last'.op \in {"preview", "start_batch", "undo_selected"}
       => \A i \in 1..Len(rows) :
             (i <= Len(rows')
              /\ (IsSuccessStatus(rows[i].status) \/ IsErrorStatus(rows[i].status)))
             => /\ rows'[i].status # "Ready"
                /\ last'.op = "start_batch"
                   => \A k \in 1..Len(last'.log) :
                         last'.log[k].item = i => last'.log[k].res = "skip"
                /\ rows'[i].status # rows[i].status
                   => /\ IsSuccessStatus(rows[i].status)
                      /\ rows'[i].status = "Undone"]_vars

\* the three caches of the resolver
Caches == <<show_cache, season_cache, episode_cache>>

\* what a hit on cache under key must look like: only the hit counter of
\* that kind moves, by one; the cached value is returned; nothing was sent
IsHit(hits_after, cache, key) ==
    /\ cache_hits' = hits_after
    /\ last'.found
    /\ last'.data = cache[key]
    /\ last'.log = <<>>
    /\ api_call_count' = api_call_count
    /\ Caches' = Caches

\* C12: a resolver call whose natural key (the lower-cased name for a show)
\* is already cached adds one to the hit counter of its kind, returns the
\* cached value, sends no request and changes no call counter and no cache.
C12_CacheHit ==
    [][/\ (last'.op = "get_show_info" /\ lower(last'.args[1]) \in DOMAIN show_cache)
          => IsHit([cache_hits EXCEPT !.show = @ + 1], show_cache, lower(last'.args[1]))
       /\ (last'.op = "get_season_details"
           /\ SeasonKey(last'.args[1], last'.args[2]) \in DOMAIN season_cache)
          => IsHit([cache_hits EXCEPT !.season = @ + 1], season_cache,
                   SeasonKey(last'.args[1], last'.args[2]))
       /\ (last'.op = "get_episode_info"
           /\ EpisodeKey(last'.args[1], last'.args[2], last'.args[3])
                 \in DOMAIN episode_cache)
          => IsHit([cache_hits EXCEPT !.episode = @ + 1], episode_cache,
                   EpisodeKey(last'.args[1], last'.args[2], last'.args[3]))]_vars

\* a show was found under a name written in another letter case than the
\* one it was stored under
C12_Witness ==
    /\ last.op = "get_show_info"
    /\ last.found
    /\ last.log = <<>>
    /\ cache_hits.show = 1
    /\ last.args[1] \notin DOMAIN show_cache
    /\ lower(last.args[1]) \in DOMAIN show_cache

\* C13: the number of search requests counted for shows equals the number
\* of distinct case-folded names get_show_info was called with, however
\* often a name was repeated and whatever each lookup returned.
C13_OneCallPerName == api_call_count.search = Cardinality(show_names)

\* what a miss must look like: the call counter after, one request sent,
\* and when a value is returned it is the value now stored under the key
IsMiss(calls_after, cache_after, key) ==
    /\ api_call_count' = calls_after
    /\ Len(last'.log) = 1
    /\ last'.found => (key \in DOMAIN cache_after /\ cache_after[key] = last'.data)

\* C14: a resolver call whose natural key is not cached adds one to the
\* call counter of its kind and sends exactly one request to the lookup
\* service; the value it returns is the one it stored under the key.
C14_CacheMiss ==
    [][/\ (last'.op = "get_show_info" /\ lower(last'.args[1]) \notin DOMAIN show_cache)
          => IsMiss([api_call_count EXCEPT !.search = @ + 1], show_cache',
                    lower(last'.args[1]))
       /\ (last'.op = "get_season_details"
           /\ SeasonKey(last'.args[1], last'.args[2]) \notin DOMAIN season_cache)
          => IsMiss([api_call_count EXCEPT !.season_details = @ + 1], season_cache',
                    SeasonKey(last'.args[1], last'.args[2]))
       /\ (last'.op = "get_episode_info"
           /\ EpisodeKey(last'.args[1], last'.args[2], last'.args[3])
                 \notin DOMAIN episode_cache)
          => IsMiss([api_call_count EXCEPT !.episode_details = @ + 1], episode_cache',
                    EpisodeKey(last'.args[1], last'.args[2], last'.args[3]))]_vars

ResolverOps == {"get_show_info", "get_season_details", "get_episode_info"}

NoRepeat(log) == \A i, j \in 1..Len(log) : log[i] = log[j] => i = j

\* C15: a resolver call that could not get its answer from the service
\* returns NotFound to its caller, has sent each of its requests once (no
\* retry), and leaves the three caches as they were.
C15_FailureIsNotFound ==
    [][(last'.op \in ResolverOps /\ ~last'.found)
       => /\ Caches' = Caches
          /\ last'.log # <<>>
          /\ NoRepeat(last'.log)
          /\ cache_hits' = cache_hits]_vars

\* the details request of a show failed while another show was cached
C15_Witness ==
    /\ last.op = "get_show_info"
    /\ ~last.found
    /\ last.log = <<"search.tv_shows", "tv.details">>
    /\ show_cache # <<>>

Kept(cache, cache_after) ==
    \A k \in DOMAIN cache : k \in DOMAIN cache_after /\ cache_after[k] = cache[k]

\* C16: a key stored in the show, season or episode cache stays there with
\* the same value through every later step.
C16_NoEviction ==
    [][/\ Kept(show_cache, show_cache')
       /\ Kept(season_cache, season_cache')
       /\ Kept(episode_cache, episode_cache')]_vars

\* a second show was stored after a first one, and both are cached
C16_Witness ==
    /\ last.op = "get_show_info"
    /\ last.found
    /\ last.log # <<>>
    /\ Cardinality(DOMAIN show_cache) = 2

MissingPieceStatuses ==
    {"No show selected", "No season selected", "No episode number found"}

\* C17: after a preview with the TV method every row carries the status of
\* the first missing piece: no show, else no season, else no episode number
\* in the name, else an episode the resolver did not find; its proposed
\* name is then empty, and when every row stops at one of the first three
\* of them the handler has sent no request.
C17_PreviewStatusPrecedence ==
    [][last'.op = "preview"
       => /\ \A i \in 1..Len(rows') :
               LET show == current_show'
                   season == current_season'
                   status == rows'[i].status
                   episode == extract_episode_number(rows'[i].original_name)
               IN  /\ show = None => status = "No show selected"
                   /\ (show # None /\ season = None) => status = "No season selected"
                   /\ (show # None /\ season # None /\ episode = None)
                      => status = "No episode number found"
                   /\ (show # None /\ season # None /\ ~Falsy(episode)
                       /\ EpisodeKey(show, season, episode) \notin DOMAIN episode_cache')
                      => status = "Episode not found in season " \o ToString(season)
                   /\ status \in MissingPieceStatuses
                                 \cup {"Episode not found in season " \o ToString(season)}
                      => rows'[i].new_name = <<>>
          /\ (\A i \in 1..Len(rows') : rows'[i].status \in MissingPieceStatuses)
             => (api_call_count' = api_call_count /\ episode_cache' = episode_cache)]_vars

\* one row stopped at the parser and another at the resolver
C17_Witness ==
    /\ last.op = "preview"
    /\ \E i, j \in 1..Len(rows) :
          /\ rows[i].status = "No episode number found"
          /\ rows[j].status = "Episode not found in season 1"
          /\ rows[j].new_name = <<>>

\* C18: a row previewed to Ready is named
\* "<FormattedShowName>-S<season:02>E<episode:02>-<FormattedEpisodeName><ext>",
\* sanitized, with the title formatting rule applied to the show name and
\* to the episode name; "01 - Winter Is Coming.mkv" under show "Game of
\* Thrones", season 1 becomes "Game Of Thrones-S01E01-Winter Is Coming.mkv".
C18_ComposedName ==
    [][last'.op = "preview"
       => \A i \in 1..Len(rows') :
             rows'[i].status = "Ready"
             => LET original_name == rows'[i].original_name
                    episode == extract_episode_number(original_name)
                IN  /\ rows'[i].new_name =
                          sanitize_filename(
                              format_show_name(ShowName(current_show'))
                              \o <<"-", "S">> \o Pad2(current_season')
                              \o <<"E">> \o Pad2(episode) \o <<"-">>
                              \o format_show_name(EpisodeName(current_show',
                                                              current_season', episode))
                              \o SplitExt(original_name))
                    /\ (original_name = Chars("01 - Winter Is Coming.mkv")
                        /\ ShowName(current_show') = Chars("Game of Thrones"))
                       => rows'[i].new_name
                             = Chars("Game Of Thrones-S01E01-Winter Is Coming.mkv")]_vars

\* C19: under the method <Inc Nr> the entry previewed at position i of the
\* working set is named i, zero-padded to three digits, plus its extension.
C19_IncNrByPosition ==
    current_method = "<Inc Nr>"
    => \A i \in 1..Len(files) :
          files[i].status = "Ready"
          => files[i].new_name = Pad3(i) \o SplitExt(files[i].original_name)

\* C20: the sanitized name has the length of the name, has _ wherever the
\* name has one of < > : " / \ | ? * and the name's character everywhere
\* else, contains none of the nine, and sanitizing it again changes nothing.
C20_Sanitize ==
    last.op = "sanitize_filename"
    => LET x == last.args[1]
           y == last.data
           replaced == {"<", ">", ":", "\"", "/", "\\", "|", "?", "*"}
       IN  /\ Len(y) = Len(x)
           /\ \A i \in 1..Len(x) : y[i] = (IF x[i] \in replaced THEN "_" ELSE x[i])
           /\ \A i \in 1..Len(y) : y[i] \notin replaced
           /\ sanitize_filename(y) = y

\* a name with a replaced and a kept character was sanitized
C20_Witness ==
    /\ last.op = "sanitize_filename"
    /\ last.args[1] # last.data
    /\ \E i \in 1..Len(last.data) : last.data[i] = "a"

MinorWords ==
    {Chars("a"), Chars("an"), Chars("the"), Chars("in"), Chars("on"), Chars("at"),
     Chars("for"), Chars("to"), Chars("of"), Chars("with"), Chars("by")}

\* C21: the formatted title has the words of the name, in order, joined by
\* single blanks; a minor word that is not the first word is in lower
\* case, every other word starts with its first letter in upper case; and
\* "the lord of the rings" becomes "The Lord of the Rings".
C21_TitleFormatting ==
    last.op = "format_show_name"
    => LET words == split(last.args[1])
           out == split(last.data)
       IN  /\ Len(out) = Len(words)
           /\ last.data = join(out)
           /\ \A i \in 1..Len(words) :
                 /\ lower(out[i]) = lower(words[i])
                 /\ IF i > 1 /\ lower(words[i]) \in MinorWords
                    THEN out[i] = lower(words[i])
                    ELSE out[i][1] = upper_char(words[i][1])
           /\ last.args[1] = Chars("the lord of the rings")
              => last.data = Chars("The Lord of the Rings")

\* a name with a leading minor word and an inner minor word was formatted
C21_Witness ==
    /\ last.op = "format_show_name"
    /\ last.args[1] = Chars("the lord of the rings")
    /\ last.data # last.args[1]

\* C30: when the parser extracts an episode number from the name of a row,
\* the number 0 included, a preview with a show and a season selected does
\* not report "No episode number found": the row is resolved, so it is
\* Ready or its episode was not found in the season.
C30_EpisodeZeroResolved ==
    [][last'.op = "preview"
       => \A i \in 1..Len(rows') :
             (current_show' # None /\ current_season' # None
              /\ extract_episode_number(rows'[i].original_name) # None)
             => /\ rows'[i].status # "No episode number found"
                /\ rows'[i].status
                      \in {"Ready", "Episode not found in season "
                                    \o ToString(current_season')}]_vars

(***************************************************************************)
(* TVShowRenamer.extract_show_info.  A regular expression is a sequence of *)
(* elements [chars, neg, min, max, group]: between min and max characters  *)
(* that are in chars (not in chars when neg), as many as possible, kept as *)
(* the group of that number when group is not 0.                           *)
(***************************************************************************)
Fail == <<-1>>

One(chars) == [chars |-> chars, neg |-> FALSE, min |-> 1, max |-> 1, group |-> 0]

Optional(chars) == [chars |-> chars, neg |-> FALSE, min |-> 0, max |-> 1, group |-> 0]

\* (\d{1,2}) as group g
Number(g) == [chars |-> Digits, neg |-> FALSE, min |-> 1, max |-> 2, group |-> g]

\* [\. _]
Sep == One({".", " ", "_"})

\* a word under re.IGNORECASE
Literal(word) == [i \in 1..Len(word) |-> One({lower_char(word[i]), upper_char(word[i])})]

Fits(e, s, p, n) ==
    /\ p + n - 1 <= Len(s)
    /\ \A i \in p..(p + n - 1) : (s[i] \in e.chars) # e.neg

\* of the lengths tried for an element, each with what the rest matched
\* after it, the longest after which the rest did match
Longest(tried) ==
    LET ways == {t \in tried : t[2] # Fail}
    IN  IF ways = {} THEN Fail
        ELSE LET t == CHOOSE w \in ways : \A v \in ways : v[1] <= w[1]
             IN  <<t[1]>> \o t[2]

\* the lengths the elements from the k-th on match at position p of s, the
\* first way the backtracking search finds, or Fail
RECURSIVE MatchFrom(_, _, _, _)
MatchFrom(elems, k, s, p) ==
    IF k > Len(elems) THEN <<>>
    ELSE LET e == elems[k]
         IN  CHOOSE lens \in
                {Longest(tried) :
                    tried \in {{<<n, IF Fits(e, s, p, n)
                                     THEN MatchFrom(elems, k + 1, s, p + n)
                                     ELSE Fail>> : n \in e.min..e.max}}} : TRUE

RECURSIVE Sum(_)
Sum(lens) == IF lens = <<>> THEN 0 ELSE Head(lens) + Sum(Tail(lens))

\* re.search(r"^(.*?)" + elems, s): group 1 is the shortest start of s after
\* which the elements match; the result maps 1, 2, 3 to the groups
Search(elems, s) ==
    LET starts == {i \in 0..Len(s) : MatchFrom(elems, 1, s, i + 1) # Fail}
    IN  IF starts = {} THEN Fail
        ELSE LET i == CHOOSE a \in starts : \A b \in starts : a <= b
                 lens == MatchFrom(elems, 1, s, i + 1)
                 At(k) == i + 1 + Sum(SubSeq(lens, 1, k - 1))
                 Group(g) == LET k == CHOOSE j \in 1..Len(elems) : elems[j].group = g
                             IN  SubSeq(s, At(k), At(k) + lens[k] - 1)
             IN  [g \in 1..3 |-> IF g = 1 THEN SubSeq(s, 1, i) ELSE Group(g)]

\* Show.Name.S01E02 or Show.Name.S1E02
SeasonEpisode ==
    <<Sep>> \o Literal(Chars("S")) \o <<Optional({"0"}), Number(2)>>
       \o Literal(Chars("E")) \o <<Number(3)>>

\* Show.Name.1x02 or Show.Name.01x02
NxM == <<Sep, Optional({"0"}), Number(2)>> \o Literal(Chars("x")) \o <<Number(3)>>

\* Show.Name.102
ThreeDigits ==
    <<Sep, [chars |-> Digits, neg |-> FALSE, min |-> 1, max |-> 1, group |-> 2],
           [chars |-> Digits, neg |-> FALSE, min |-> 2, max |-> 2, group |-> 3],
           [chars |-> Digits, neg |-> TRUE, min |-> 1, max |-> 1, group |-> 0]>>

\* Show.Name.Season.1.Episode.02
SeasonWordEpisodeWord ==
    <<Sep>> \o Literal(Chars("Season")) \o <<Sep, Optional({"0"}), Number(2), Sep>>
       \o Literal(Chars("Episode")) \o <<Sep, Number(3)>>

\* Show.Name.E02.S01
EpisodeSeason ==
    <<Sep>> \o Literal(Chars("E")) \o <<Number(2), Sep>>
       \o Literal(Chars("S")) \o <<Optional({"0"}), Number(3)>>

\* the list with the last pattern first
patterns_reversed ==
    <<EpisodeSeason, SeasonWordEpisodeWord, ThreeDigits, NxM, SeasonEpisode>>

patterns == <<SeasonEpisode, NxM, ThreeDigits, SeasonWordEpisodeWord, EpisodeSeason>>

\* str.strip()
RECURSIVE lstrip(_)
lstrip(s) == IF s # <<>> /\ Head(s) \in Whitespace THEN lstrip(Tail(s)) ELSE s

RECURSIVE rstrip(_)
rstrip(s) ==
    IF s # <<>> /\ s[Len(s)] \in Whitespace THEN rstrip(SubSeq(s, 1, Len(s) - 1)) ELSE s

strip(s) == lstrip(rstrip(s))

\* str.replace(".", " ")
replace_dots(s) == [i \in 1..Len(s) |-> IF s[i] = "." THEN " " ELSE s[i]]

\* the first position from p on where c stands in s, or 0
FindFrom(s, c, p) ==
    IF \E i \in p..Len(s) : s[i] = c
    THEN CHOOSE i \in p..Len(s) : s[i] = c /\ \A k \in p..(i - 1) : s[k] # c
    ELSE 0

\* re.sub(r"\[.*?\]", "", s)
RECURSIVE remove_tags(_)
remove_tags(s) ==
    LET open == FindFrom(s, "[", 1)
        close == IF open = 0 THEN 0 ELSE FindFrom(s, "]", open + 1)
    IN  IF close = 0 THEN s
        ELSE SubSeq(s, 1, open - 1) \o remove_tags(SubSeq(s, close + 1, Len(s)))

\* s.split("-")[0]
before_hyphen(s) ==
    LET dash == FindFrom(s, "-", 1) IN IF dash = 0 THEN s ELSE SubSeq(s, 1, dash - 1)

\* a clean-up that only turns the dots into blanks and trims
dots_only(raw) == strip(replace_dots(raw))

\* the clean-up of the show name a standard pattern found
clean_show_name(raw) ==
    strip(before_hyphen(strip(remove_tags(strip(replace_dots(raw))))))

\* int() of a string of decimal digits
RECURSIVE int(_)
int(s) == IF s = <<>> THEN 0 ELSE 10 * int(SubSeq(s, 1, Len(s) - 1)) + DigitVal(s[Len(s)])

\* what is left of a name after the title matches (?:\[.*?\])*\..*$
RECURSIVE TagsThenDot(_)
TagsThenDot(r) ==
    /\ r # <<>>
    /\ \/ r[1] = "."
       \/ /\ r[1] = "["
          /\ \E j \in 2..Len(r) : r[j] = "]" /\ TagsThenDot(SubSeq(r, j + 1, Len(r)))

\* re.search of the episode-only pattern: the groups 1 and 2, or Fail
SearchEpisodeOnly(filename) ==
    LET head == MatchFrom(<<Number(1), Sep, One({"-"}), Sep>>, 1, filename, 1)
    IN  IF head = Fail THEN Fail
        ELSE LET from == Sum(head) + 1
                 ends == {i \in (from - 1)..Len(filename) :
                             TagsThenDot(SubSeq(filename, i + 1, Len(filename)))}
             IN  IF ends = {} THEN Fail
                 ELSE <<SubSeq(filename, 1, head[1]),
                        SubSeq(filename, from,
                               CHOOSE a \in ends : \A b \in ends : a <= b)>>

\* re.search(r"season[\. _](\d+)", show_title, re.IGNORECASE): the digits of
\* group 1, none when there is no match
SearchSeason(show_title) ==
    LET token == Literal(Chars("season")) \o <<Sep, One(Digits)>>
        starts == {i \in 1..Len(show_title) : MatchFrom(token, 1, show_title, i) # Fail}
    IN  IF starts = {} THEN <<>>
        ELSE LET first == (CHOOSE a \in starts : \A b \in starts : a <= b) + 7
                 last_digit == CHOOSE j \in first..Len(show_title) :
                                  /\ \A k \in first..j : show_title[k] \in Digits
                                  /\ ~IsDigitAt(show_title, j + 1)
             IN  SubSeq(show_title, first, last_digit)

NoMatch == <<>>

\* the loop over the standard patterns from the k-th on
RECURSIVE TryPatterns(_, _, _)
TryPatterns(list, k, filename) ==
    IF k > Len(list) THEN NoMatch
    ELSE LET match == Search(list[k], filename)
         IN  IF match = Fail THEN TryPatterns(list, k + 1, filename)
             ELSE <<clean_show_name(match[1]), int(match[2]), int(match[3])>>

\* the branch taken when the episode-only pattern matched with these groups
episode_only(match, own_season) ==
    LET show_title == strip(match[2])
        season_match == SearchSeason(show_title)
        cleaned == strip(before_hyphen(strip(remove_tags(show_title))))
    IN  IF season_match # <<>>
        THEN <<cleaned, int(season_match), int(match[1])>>
        ELSE IF ~Falsy(own_season)
        THEN <<cleaned, own_season, int(match[1])>>
        ELSE NoMatch

\* extract_show_info(filename) on a renamer whose attribute current_season
\* is own_season (None when the renamer has no such attribute)
extract_show_info(filename, own_season) ==
    LET match == SearchEpisodeOnly(filename)
    IN  IF match # Fail THEN episode_only(match, own_season)
        ELSE TryPatterns(patterns, 1, filename)

\* TVShowRenamer.__init__ gives the renamer no attribute current_season and
\* nothing sets one later: open_show_dialog sets the attribute of the window
RenamerSeason == None

TwoDigits == {Chars("00"), Chars("01"), Chars("02"), Chars("05"), Chars("10")}

ParseShows == {Chars("Breaking.Bad"), Chars("Show"), Chars("Spider-Man"),
               Chars("Show [720p]"), Chars(" The_Show.")}

EpisodeTitles == {Chars("Winter Is Coming"), Chars("Show season 2"),
                  Chars("Show Season_10 [x]"), Chars("Pilot - Part")}

SE(name, s, e) == name \o Chars(".S") \o s \o Chars("E") \o e \o Chars(".mkv")

ES(name, m, n) == name \o Chars(".E") \o m \o Chars(".S") \o n \o Chars(".mkv")

EpisodeOnly(e, show_title) == e \o Chars(" - ") \o show_title \o Chars(".mkv")

ParseNames ==
    {SE(name, s, e) : name \in ParseShows, s \in TwoDigits, e \in TwoDigits}
    \cup {ES(name, m, n) : name \in {Chars("Show"), Chars("Spider-Man")},
                           m \in TwoDigits, n \in TwoDigits}
    \cup {EpisodeOnly(e, show_title) : e \in TwoDigits, show_title \in EpisodeTitles}
    \cup {Chars("Show.102.mkv"), Chars("Show.Season.1.Episode.02.mkv"),
          Chars("Show.2x03.E02.S01.mkv"), Chars("Show.S01E02.103.mkv"),
          Chars("Show.Season.1.Episode.02.S03E04.mkv"), Chars("show 1x05.mkv"),
          Chars("breaking.bad.s01e05.mkv"), Chars("01 - Show.S02E03.mkv"),
          Chars("Show.E00.mkv"), Chars("notes.txt"), Chars("Show.1080p.mkv")}

InitParse == Quiet /\ last = Did("init")

\* one call in a session
ExtractShowInfo(filename) ==
    /\ last.op # "extract_show_info"
    /\ last' = Returned("extract_show_info", <<filename>>,
                        extract_show_info(filename, RenamerSeason))
    /\ UnchangedWindow

\* the renamer of a window in which a show and a season may be selected
ParseNext ==
    \/ \E show \in ShowIds, season \in Seasons \cup {None} : OpenShowDialog(show, season)
    \/ \E filename \in ParseNames : ExtractShowInfo(filename)

SpecParse == InitParse /\ [][ParseNext]_vars

(***************************************************************************)
(* The file list widget on its own.  A row of the tree is                  *)
(* [item, values]: item is the number behind the id the tree gave the row  *)
(* when it was inserted ("I001", "I002", ... compare like their numbers)   *)
(* and values maps each column to its text.                                *)
(***************************************************************************)
MaxSortRows == 3
MaxSorts == 2

\* the characters of the texts in the list, in code point order
CodePoints == Chars(" ./ABCDEFGHIJKLMNOPQRSTUVWXYZabcdefghijklmnopqrstuvwxyz")

\* ord() of each of them, up to where the list starts
Ordinals == [c \in {CodePoints[i] : i \in 1..Len(CodePoints)} |-> IndexIn(CodePoints, c)]

ord(c) == Ordinals[c]

\* s < t for two str values
StrLess(s, t) ==
    \E i \in 1..(Len(s) + 1) :
       /\ \A k \in 1..(i - 1) : k <= Len(t) /\ s[k] = t[k]
       /\ \/ i = Len(s) + 1 /\ Len(t) >= i
          \/ i <= Len(s) /\ i <= Len(t) /\ ord(s[i]) < ord(t[i])

\* an order that looks at the item ids only
ItemLess(a, b) == a[2] < b[2]

\* a < b for two (value, item) tuples
TupleLess(a, b) ==
    \/ StrLess(a[1], b[1])
    \/ a[1] = b[1] /\ a[2] < b[2]

\* list.sort(reverse=reverse) of a list of tuples no two of which are equal
sort(items, reverse) ==
    LET Before(a, b) == IF reverse THEN TupleLess(b, a) ELSE TupleLess(a, b)
        rank == [i \in 1..Len(items) |->
                    1 + Cardinality({k \in 1..Len(items) : Before(items[k], items[i])})]
    IN  [n \in 1..Len(items) |->
            items[CHOOSE i \in 1..Len(items) : rank[i] = n]]

\* FileListManager.sort_by_column on the tree and the sort state; move()
\* puts the row with the n-th sorted item at position n
sort_by_column(tree, state, col) ==
    LET items == [i \in 1..Len(tree) |-> <<tree[i].values[col], tree[i].item>>]
        sorted == sort(items, state[col])
        RowOf(item) == tree[CHOOSE i \in 1..Len(tree) : tree[i].item = item]
    IN  [tree |-> [n \in 1..Len(tree) |-> RowOf(sorted[n][2])],
         state |-> [state EXCEPT ![col] = ~state[col]]]

\* FileListManager.add_file(original_name, path)
add_file(tree, original_name, path) ==
    Append(tree, [item |-> Len(tree) + 1,
                  values |-> [col \in Columns |->
                                 CASE col = "Original Name" -> original_name
                                   [] col = "New Name" -> <<>>
                                   [] col = "Path" -> path
                                   [] col = "Status" -> Chars("Not processed")]])

RECURSIVE add_files(_, _)
add_files(tree, listed) ==
    IF listed = <<>> THEN tree
    ELSE add_files(add_file(tree, listed[1][1], listed[1][2]), Tail(listed))

SortEntries == {<<Chars("c.mkv"), Chars("/x/c.mkv")>>,
                <<Chars("a.mkv"), Chars("/z/a.mkv")>>,
                <<Chars("B.mkv"), Chars("/y/B.mkv")>>}

Listings == UNION {[1..n -> SortEntries] : n \in 0..MaxSortRows}

InitSort ==
    /\ platform = "posix"
    /\ fs = <<>>
    /\ \E listed \in Listings : rows = add_files(<<>>, listed)
    /\ files = <<>>
    /\ undo_stack = <<>>
    /\ history_list = <<>>
    /\ current_method = NoMethod
    /\ current_show = None
    /\ current_season = None
    /\ episode_cache = <<>>
    /\ api_call_count = ZeroCalls
    /\ cache_hits = ZeroHits
    /\ show_cache = <<>>
    /\ season_cache = <<>>
    /\ show_names = {}
    /\ Fresh
    /\ last = Input(<<>>)

\* a click on the heading of col; last.log keeps the columns clicked before
SortByColumn(col) ==
    /\ Len(last.log) < MaxSorts
    /\ \E res \in {sort_by_column(rows, sort_state, col)} :
          /\ rows' = res.tree
          /\ sort_state' = res.state
    /\ last' = [Returned("sort_by_column", <<col>>, <<>>) EXCEPT
                  !.log = IF last.op = "input" THEN <<>>
                          ELSE Append(last.log, last.args[1])]
    /\ UNCHANGED <<platform, fs, files, undo_stack, history_list, current_method,
                   current_show, current_season, episode_cache, api_call_count,
                   cache_hits, show_cache, season_cache, show_names,
                   performance_stats, task_queue, result_queue, worker,
                   submitted, drained>>

SpecSort == InitSort /\ [][\E col \in Columns : SortByColumn(col)]_vars

Ascending(tree, col) ==
    \A i, j \in 1..Len(tree) :
       i < j => ~StrLess(tree[j].values[col], tree[i].values[col])

Descending(tree, col) ==
    \A i, j \in 1..Len(tree) :
       i < j => ~StrLess(tree[i].values[col], tree[j].values[col])

SameRows(before, after) ==
    /\ Len(after) = Len(before)
    /\ \A i \in 1..Len(before) :
          Cardinality({k \in 1..Len(after) : after[k] = before[i]}) = 1

\* C26: sort_by_column(col) leaves the list with the rows it had, each once
\* and none altered, in an order sorted by the text in col; the order is
\* ascending when col is sorted for the first time since the list was made.
C26_SortByColumn ==
    [][last'.op = "sort_by_column" =>
          LET col == last'.args[1]
          IN  /\ SameRows(rows, rows')
              /\ Ascending(rows', col) \/ Descending(rows', col)
              /\ (\A k \in 1..Len(last'.log) : last'.log[k] # col)
                    => Ascending(rows', col)]_vars

\* the list of the test, c then a then b in first position, sorted by name
C26_Witness ==
    /\ last.op = "sort_by_column"
    /\ last.args = <<"Original Name">>
    /\ last.log = <<>>
    /\ Len(rows) = 3
    /\ rows[1].item = 2 /\ rows[1].values["Original Name"] = Chars("B.mkv")
    /\ rows[2].item = 3 /\ rows[2].values["Original Name"] = Chars("a.mkv")
    /\ rows[3].item = 1 /\ rows[3].values["Original Name"] = Chars("c.mkv")

\* C29: the performance statistics count every timed get_show_info call by
\* what that call itself did: cache_hits_count is the number of calls
\* answered from the show cache and api_calls_count the number of calls
\* that went to the lookup service.
C29_StatsByOwnHit ==
    /\ get_performance_stats(performance_stats).cache_hits_count = cache_hits.show
    /\ get_performance_stats(performance_stats).api_calls_count = api_call_count.search

(***************************************************************************)
(* The background worker.  A task is [id, raises]: id is its place among   *)
(* the tasks queued and raises says whether calling it raises; the value a *)
(* task returns and the message of the exception it raises are its id.  A  *)
(* result is <<status, value>>.                                            *)
(***************************************************************************)
MaxTasks == 3

\* a queue that hands out the item put last
get_newest(queue) == [item |-> queue[Len(queue)], rest |-> SubSeq(queue, 1, Len(queue) - 1)]

\* queue.Queue.get() / get_nowait() on a queue that is not empty
get(queue) == [item |-> Head(queue), rest |-> Tail(queue)]

\* queue.Queue.put(item)
put(queue, item) == Append(queue, item)

\* try: result = task(); ("success", result) / except Exception as e: ("error", str(e))
run(task) == IF task.raises THEN <<"error", task.id>> ELSE <<"success", task.id>>

\* process_in_background(func): the lambda is put on the task queue
ProcessInBackground(raises) ==
    /\ Len(submitted) < MaxTasks
    /\ \E task \in {[id |-> Len(submitted) + 1, raises |-> raises]} :
          /\ task_queue' = put(task_queue, task)
          /\ submitted' = Append(submitted, task)
    /\ last' = Did("process_in_background")
    /\ UNCHANGED <<platform, fs, rows, files, undo_stack, history_list,
                   current_method, current_show, current_season, episode_cache,
                   api_call_count, cache_hits, show_cache, season_cache, show_names,
                   performance_stats, sort_state, result_queue, worker, drained>>

\* worker: task = self.task_queue.get(), which waits while the queue is empty
WorkerGet ==
    /\ worker.pc = "get"
    /\ task_queue # <<>>
    /\ worker' = [pc |-> "run", task |-> get(task_queue).item]
    /\ task_queue' = get(task_queue).rest
    /\ last' = Did("get")
    /\ UNCHANGED <<platform, fs, rows, files, undo_stack, history_list,
                   current_method, current_show, current_season, episode_cache,
                   api_call_count, cache_hits, show_cache, season_cache, show_names,
                   performance_stats, sort_state, result_queue, submitted, drained>>

\* worker: the task is called and its result put; then the loop starts over
WorkerRun ==
    /\ worker.pc = "run"
    /\ result_queue' = put(result_queue, run(worker.task))
    /\ worker' = [pc |-> "get", task |-> NoTask]
    /\ last' = Did("run")
    /\ UNCHANGED <<platform, fs, rows, files, undo_stack, history_list,
                   current_method, current_show, current_season, episode_cache,
                   api_call_count, cache_hits, show_cache, season_cache, show_names,
                   performance_stats, sort_state, task_queue, submitted, drained>>

\* check_results: one turn of its loop takes a result off the queue; with
\* the queue empty it only schedules itself again
CheckResults ==
    /\ result_queue # <<>>
    /\ drained' = Append(drained, get(result_queue).item)
    /\ result_queue' = get(result_queue).rest
    /\ last' = Did("check_results")
    /\ UNCHANGED <<platform, fs, rows, files, undo_stack, history_list,
                   current_method, current_show, current_season, episode_cache,
                   api_call_count, cache_hits, show_cache, season_cache, show_names,
                   performance_stats, sort_state, task_queue, worker, submitted>>

WorkerNext ==
    \/ \E raises \in BOOLEAN : ProcessInBackground(raises)
    \/ WorkerGet
    \/ WorkerRun
    \/ CheckResults

\* the worker thread runs whenever it can, and check_results runs again
\* 100 ms after every run
InitWorker == Quiet /\ last = Did("init")

SpecWorker ==
    /\ InitWorker
    /\ [][WorkerNext]_vars
    /\ WF_vars(WorkerGet)
    /\ WF_vars(WorkerRun)
    /\ WF_vars(CheckResults)

\* the results posted so far, in the order they were posted
Posted == drained \o result_queue

\* the tasks in the order the worker takes them or has taken them
Taken ==
    [i \in 1..Len(Posted) |-> Posted[i][2]]
    \o (IF worker.pc = "run" THEN <<worker.task.id>> ELSE <<>>)
    \o [i \in 1..Len(task_queue) |-> task_queue[i].id]

WorkerSafe ==
    \* every task queued is waiting, running or has its result, in queue order
    /\ Taken = [i \in 1..Len(submitted) |-> i]
    \* a running task started after the results of all before it were posted
    /\ worker.pc = "run" => Len(Posted) = worker.task.id - 1
    \* the i-th result is that of the i-th task: success or error as it went
    /\ \A i \in 1..Len(Posted) :
          Posted[i] = <<IF submitted[i].raises THEN "error" ELSE "success", i>>
    \* the worker goes on whatever a task did
    /\ worker.pc \in {"get", "run"}

\* C28: the worker runs the queued tasks in the order they were queued and
\* one at a time, posts for each exactly one result, ("success", value) or
\* ("error", message) when it raised, in that order, goes on after a task
\* that raised, and every result posted is in the end taken by check_results.
C28_WorkerFifo ==
    /\ []WorkerSafe
    /\ \A i \in 1..MaxTasks :
          (\E k \in 1..Len(result_queue) : result_queue[k][2] = i)
             ~> (\E k \in 1..Len(drained) : drained[k][2] = i)

\* an error result was drained and the result of the task after it too
C28_Witness ==
    /\ Len(drained) = 3
    /\ drained[1] = <<"success", 1>>
    /\ drained[2] = <<"error", 2>>
    /\ drained[3] = <<"success", 3>>

(***************************************************************************)
(* process_batch(files).  st carries the file entries, the resolver, the   *)
(* count of entries reached, the list failed (the places of the entries in *)
(* it) and the log of the attempts made: [item, attempt, raised].  For the *)
(* i-th entry the first raises[i] calls of preview_tv_show_rename let an   *)
(* exception out and the next returns.                                     *)
(***************************************************************************)
MaxBatchFiles == 2

\* a policy of two attempts
retry_twice == 1 + 1

retry_count == 3

\* for attempt in range(retry_count), from the attempt-th turn on, for the
\* i-th entry
RECURSIVE retry(_, _, _, _, _, _, _)
retry(st, i, attempt, raises, show, season, up) ==
    IF attempt > retry_count THEN st
    ELSE LET tried == [st EXCEPT !.log = Append(@, [item |-> i, attempt |-> attempt,
                                                    raised |-> attempt <= raises[i]])]
         IN  IF attempt <= raises[i]
             THEN IF attempt = retry_count
                  THEN [tried EXCEPT !.failed = Append(@, i)]
                  ELSE retry(tried, i, attempt + 1, raises, show, season, up)
             ELSE LET p == preview_tv_show_rename(st.r, show, season,
                                                      st.files[i].original_name, up)
                  IN  [tried EXCEPT !.files[i].new_name = p.new_name,
                                    !.files[i].status = p.status,
                                    !.r = p.r]

\* for file_entry in files, from the i-th entry on
RECURSIVE process_batch(_, _, _, _, _, _)
process_batch(st, i, raises, show, season, up) ==
    IF i > Len(st.files) THEN st
    ELSE process_batch(retry([st EXCEPT !.processed = @ + 1], i, 1, raises,
                             show, season, up),
                       i + 1, raises, show, season, up)

BatchNames == {Chars("d/Show.E01.mkv"), Chars("d/notes.txt")}

FileEntry(path) ==
    [original_name |-> Basename(path), new_name |-> <<>>, path |-> path,
     status |-> "Not processed"]

InitBatch ==
    /\ platform = "posix"
    /\ fs = [p \in BatchNames |-> IF p = Chars("d/notes.txt") THEN 2 ELSE 1]
    /\ rows = <<>>
    /\ \E n \in 0..MaxBatchFiles : \E paths \in [1..n -> BatchNames] :
          files = [i \in 1..n |-> FileEntry(paths[i])]
    /\ undo_stack = <<>>
    /\ history_list = <<>>
    /\ current_method = NoMethod
    /\ current_show = None
    /\ current_season = None
    /\ episode_cache = <<>>
    /\ api_call_count = ZeroCalls
    /\ cache_hits = ZeroHits
    /\ show_cache = <<>>
    /\ season_cache = <<>>
    /\ show_names = {}
    /\ Fresh
    /\ last = Did("init")

\* one batch, and not another right after it
ProcessBatch ==
    /\ last.op # "process_batch"
    /\ \E raises \in [1..Len(files) -> 0..retry_count], up \in BOOLEAN :
       \E st \in {process_batch([files |-> files, r |-> Resolver, processed |-> 0,
                                 failed |-> <<>>, log |-> <<>>],
                                1, raises, current_show, current_season, up)} :
          /\ files' = st.files
          /\ SetResolver(st.r)
          /\ last' = [op |-> "process_batch", log |-> st.log, count |-> st.processed,
                      msg |-> IF st.failed # <<>> THEN "Processing Errors" ELSE "",
                      failed |-> st.failed]
    /\ UNCHANGED <<platform, fs, rows, undo_stack, history_list, current_method,
                   current_show, current_season>>

BatchNext ==
    \/ \E show \in ShowIds, season \in Seasons \cup {None} : OpenShowDialog(show, season)
    \/ ProcessBatch

SpecBatch == InitBatch /\ [][BatchNext]_vars

\* the attempts of the log made for the i-th entry, as places in the log
AttemptsFor(log, i) == {k \in 1..Len(log) : log[k].item = i}

ParsedBy(op) == last.op = op

\* the show names of ParseShows after the clean-up the claim names
DotsToBlanks ==
    [name \in ParseShows |->
        CASE name = Chars("Breaking.Bad") -> Chars("Breaking Bad")
          [] name = Chars("Show") -> Chars("Show")
          [] name = Chars("Spider-Man") -> Chars("Spider-Man")
          [] name = Chars("Show [720p]") -> Chars("Show [720p]")
          [] name = Chars(" The_Show.") -> Chars("The_Show")]

\* and after bracketed tags are dropped and the name is cut at its first hyphen
Cleaned ==
    [name \in ParseShows |->
        CASE name = Chars("Breaking.Bad") -> Chars("Breaking Bad")
          [] name = Chars("Show") -> Chars("Show")
          [] name = Chars("Spider-Man") -> Chars("Spider")
          [] name = Chars("Show [720p]") -> Chars("Show")
          [] name = Chars(" The_Show.") -> Chars("The_Show")]

\* C22 as stated: for a filename Name.S<dd>E<dd>.mkv the parser returns the
\* name with its dots turned into blanks and trimmed, and the two numbers
\* the digits spell.
C22_DotsToBlanks ==
    ParsedBy("extract_show_info") =>
       \A name \in ParseShows, s \in TwoDigits, e \in TwoDigits :
          last.args[1] = SE(name, s, e)
             => last.data = <<DotsToBlanks[name], ToInt(s), ToInt(e)>>

\* C22: for a filename Name.S<dd>E<dd>.mkv the parser returns the name with
\* its dots turned into blanks, bracketed tags dropped, cut at the first
\* hyphen and trimmed, and the two numbers the digits spell.
C22_CleanedName ==
    ParsedBy("extract_show_info") =>
       \A name \in ParseShows, s \in TwoDigits, e \in TwoDigits :
          last.args[1] = SE(name, s, e)
             => last.data = <<Cleaned[name], ToInt(s), ToInt(e)>>

C22_Witness ==
    /\ ParsedBy("extract_show_info")
    /\ last.args[1] = Chars("Breaking.Bad.S01E05.mkv")
    /\ last.data = <<Chars("Breaking Bad"), 1, 5>>

\* the order of the standard patterns the claim gives
Priority == <<SeasonEpisode, NxM, ThreeDigits, SeasonWordEpisodeWord, EpisodeSeason>>

\* C23: the parser returns what the first pattern that matches gives, in
\* the order episode-only, Name.SNEM, Name.NxM, Name.SEE,
\* Name.Season.N.Episode.M, Name.EM.SN, whatever a later pattern would give;
\* "Show.102.mkv" is matched by none before Name.SEE and gives ("Show", 1, 2);
\* a filename none of them matches gives NoMatch.
C23_FirstMatchWins ==
    ParsedBy("extract_show_info") =>
       LET filename == last.args[1]
           matching == {k \in 1..Len(Priority) : Search(Priority[k], filename) # Fail}
       IN  /\ IF SearchEpisodeOnly(filename) # Fail
              THEN last.data = episode_only(SearchEpisodeOnly(filename), RenamerSeason)
              ELSE IF matching = {} THEN last.data = NoMatch
              ELSE LET first == CHOOSE k \in matching : \A j \in matching : k <= j
                   IN  last.data = TryPatterns(<<Priority[first]>>, 1, filename)
           /\ filename = Chars("Show.102.mkv")
                 => /\ last.data = <<Chars("Show"), 1, 2>>
                    /\ SearchEpisodeOnly(filename) = Fail
                    /\ matching # {} /\ \A k \in matching : k >= 3

\* a name two patterns match: Name.NxM comes first and gives the result
C23_Witness ==
    /\ ParsedBy("extract_show_info")
    /\ last.args[1] = Chars("Show.2x03.E02.S01.mkv")
    /\ Search(NxM, last.args[1]) # Fail
    /\ Search(EpisodeSeason, last.args[1]) # Fail
    /\ last.data = <<Chars("Show"), 2, 3>>

\* C24: for a filename Name.E<M>.S<N>.mkv the parser returns season N and
\* episode M.
C24_EpisodeBeforeSeason ==
    ParsedBy("extract_show_info") =>
       \A name \in {Chars("Show"), Chars("Spider-Man")}, m \in TwoDigits, n \in TwoDigits :
          last.args[1] = ES(name, m, n)
             => /\ last.data # NoMatch
                /\ last.data[2] = ToInt(n)
                /\ last.data[3] = ToInt(m)

\* the season a title of EpisodeTitles names, None when it names none
SeasonToken(show_title) ==
    CASE show_title = Chars("Show season 2") -> 2
      [] show_title = Chars("Show Season_10 [x]") -> 10
      [] OTHER -> None

\* C25: for an episode-only filename the parser takes the season the title
\* names; when the title names none it takes the season selected in the
\* window, and only when none is selected either it returns NoMatch.
C25_SeasonFromContext ==
    ParsedBy("extract_show_info") =>
       \A e \in TwoDigits, show_title \in EpisodeTitles :
          last.args[1] = EpisodeOnly(e, show_title)
             => IF SeasonToken(show_title) # None
                THEN /\ last.data # NoMatch
                     /\ last.data[2] = SeasonToken(show_title)
                     /\ last.data[3] = ToInt(e)
                ELSE IF current_season # None
                THEN /\ last.data # NoMatch
                     /\ last.data[2] = current_season
                     /\ last.data[3] = ToInt(e)
                ELSE last.data = NoMatch

====
